---- MODULE Spec2Model ----
(***************************************************************************)
(* Model of compact_log's persistent append-only Merkle tree               *)
(* (ct-merkle/src/slatedb_backed_tree.rs) over a key-value backend.        *)
(*                                                                         *)
(* Hashes are symbolic: the digest of a byte string is represented by the  *)
(* structure of its preimage, so two digests are equal exactly when their  *)
(* preimages are (a collision-free hash function).                         *)
(***************************************************************************)
EXTENDS Integers, Sequences, FiniteSets, TLC

(***************************************************************************)
(* Bounds of the model.                                                    *)
(***************************************************************************)
MaxLeaves == 8
MaxBatch == 2
\* leaves in the specification that follows an append await by await
MaxStepLeaves == 4

\* the leaf values the callers append (Vec<u8> items)
Items == {<<1>>, <<2>>}

\* the batches a caller passes to batch_push
Batches == UNION {[1..k -> Items] : k \in 0..MaxBatch}

\* items handed to the two overlapping appending tasks, in all
MaxOverlapItems == 4

\* width in bits of the model's u64: the leaf count and the indices of the
\* tree are 64-bit in the code, and the model keeps the code's arithmetic at
\* this width so that the capacity of the tree is within reach
U64_BITS == 6

\* leaves in the specification of the appends with additional data
MaxDataLeaves == 3

\* leaves, and openings of the store, in the specification of the handles
MaxHandleLeaves == 3
MaxOpens == 3

(***************************************************************************)
(* Index algebra over in-order internal indices (ct-merkle tree_util).     *)
(***************************************************************************)
RECURSIVE Pow2(_)
Pow2(k) == IF k = 0 THEN 1 ELSE 2 * Pow2(k - 1)

RECURSIVE Log2(_)
Log2(w) == IF w < 2 THEN 0 ELSE 1 + Log2(w \div 2)

\* number of trailing one bits of x
RECURSIVE level(_)
level(x) == IF x % 2 = 1 THEN 1 + level(x \div 2) ELSE 0

LeafToInternal(i) == 2 * i

num_internal_nodes(num_leaves) ==
    IF num_leaves < 2 THEN num_leaves ELSE 2 * (num_leaves - 1) + 1

root_idx(num_leaves) == Pow2(Log2(num_internal_nodes(num_leaves))) - 1

\* (idx | (1 << k)) ^ (b << (k + 1)) with k = level(idx), b = bit k+1 of idx
parent_step(idx) ==
    LET k == level(idx)
        b == (idx \div Pow2(k + 1)) % 2
    IN idx + Pow2(k) - b * Pow2(k + 1)

RECURSIVE ParentLoop(_, _)
ParentLoop(p, num_leaves) ==
    IF p >= num_internal_nodes(num_leaves)
    THEN ParentLoop(parent_step(p), num_leaves)
    ELSE p

parent(idx, num_leaves) == ParentLoop(parent_step(idx), num_leaves)

\* idx ^ (1 << (k - 1))
left_child(idx) == idx - Pow2(level(idx) - 1)

\* idx ^ (3 << (k - 1))
right_child_step(idx) == idx + Pow2(level(idx) - 1)

RECURSIVE RightChildLoop(_, _)
RightChildLoop(r, num_leaves) ==
    IF r >= num_internal_nodes(num_leaves)
    THEN RightChildLoop(left_child(r), num_leaves)
    ELSE r

right_child(idx, num_leaves) == RightChildLoop(right_child_step(idx), num_leaves)

is_left(idx, num_leaves) == idx < parent(idx, num_leaves)

sibling(idx, num_leaves) ==
    LET p == parent(idx, num_leaves)
    IN IF idx < p THEN right_child(p, num_leaves) ELSE left_child(p)

\* the copath of leaf idx in the tree of num_leaves leaves, bottom to top
RECURSIVE CopathFrom(_, _)
CopathFrom(cur, num_leaves) ==
    IF cur = root_idx(num_leaves) THEN <<>>
    ELSE <<sibling(cur, num_leaves)>> \o CopathFrom(parent(cur, num_leaves), num_leaves)

indices_for_inclusion_proof(num_leaves, idx) ==
    CopathFrom(LeafToInternal(idx), num_leaves)

\* highest ancestor of the old tree's last leaf that the two trees share
RECURSIVE first_node_with_diverging_parents(_, _, _)
first_node_with_diverging_parents(idx, num_newtree_leaves, num_oldtree_leaves) ==
    IF parent(idx, num_newtree_leaves) = parent(idx, num_oldtree_leaves)
    THEN first_node_with_diverging_parents(parent(idx, num_oldtree_leaves),
                                           num_newtree_leaves, num_oldtree_leaves)
    ELSE idx

IsPowerOfTwo(n) == n > 0 /\ Pow2(Log2(n)) = n

indices_for_consistency_proof(num_oldtree_leaves, num_additions) ==
    LET num_newtree_leaves == num_oldtree_leaves + num_additions
        oldtree_is_subtree == IsPowerOfTwo(num_oldtree_leaves)
                              \/ num_oldtree_leaves = num_newtree_leaves
        ancestor == first_node_with_diverging_parents(
                        LeafToInternal(num_oldtree_leaves - 1),
                        num_newtree_leaves, num_oldtree_leaves)
    IN IF oldtree_is_subtree
       THEN CopathFrom(root_idx(num_oldtree_leaves), num_newtree_leaves)
       ELSE <<ancestor>> \o CopathFrom(ancestor, num_newtree_leaves)

(***************************************************************************)
(* Hash pipeline (RFC 6962 domain separation) and leaf codec.              *)
(***************************************************************************)
\* H::digest(b"")
EmptyHash == <<>>

\* digest::Output::<H>::default(), the all-zero digest
ZeroHash == <<0>>

\* H(0x00 || leaf bytes)
leaf_hash(item) == <<0, item>>

\* H(0x01 || left || right)
parent_hash(left, right) == <<1, left, right>>

\* bincode::serialize of a Vec<u8>: length prefix, then the bytes
Serialize(item) == <<Len(item)>> \o item

\* bincode::deserialize of a Vec<u8>
DeserializeOk(bytes) == Len(bytes) >= 1 /\ bytes[1] = Len(bytes) - 1
Deserialize(bytes) == Tail(bytes)

\* u64::to_be_bytes / u64::from_be_bytes (the two low bytes carry the value)
to_be_bytes(n) == <<0, 0, 0, 0, 0, 0, (n \div 256) % 256, n % 256>>
from_be_bytes(b) == b[7] * 256 + b[8]

\* output width of the digest in bytes (SHA-256)
HASH_SIZE == 32

\* A stored value: its length in bytes and its content.
Bytes(seq) == [len |-> Len(seq), v |-> seq]

\* hash.as_ref(): the bytes of a digest
HashBytes(h) == [len |-> HASH_SIZE, v |-> h]

\* results of the fallible operations
Ok(x) == [kind |-> "Ok", val |-> x]
Err(e) == [kind |-> e, val |-> <<>>]

(***************************************************************************)
(* KV codec.                                                               *)
(***************************************************************************)
META_KEY == <<"meta">>
leaf_key(index) == <<"leaf:", index>>
node_key(index) == <<"node:", index>>
versioned_node_key(index, version) == <<"vnode:", index, "@", version>>

\* DbHandle::get
DbHas(d, key) == key \in DOMAIN d

\* one put of a WriteBatch
Put(d, key, value) == [k \in DOMAIN d \cup {key} |-> IF k = key THEN value ELSE d[k]]

\* Db::write: the puts of the batch applied in order, as one atomic write
RECURSIVE ApplyBatch(_, _)
ApplyBatch(d, batch) ==
    IF batch = <<>> THEN d
    ELSE ApplyBatch(Put(d, batch[1][1], batch[1][2]), Tail(batch))

(***************************************************************************)
(* Tree handle: reads.                                                     *)
(***************************************************************************)
\* get_num_leaves: Ok(<<n>>) for Some(n), Ok(<<>>) for None
get_num_leaves(d) ==
    IF DbHas(d, META_KEY)
    THEN IF d[META_KEY].len = 8
         THEN Ok(<<from_be_bytes(d[META_KEY].v)>>)
         ELSE Err("EncodingError")
    ELSE Ok(<<>>)

\* len: get_num_leaves()?.unwrap_or(0)
len(d) ==
    LET r == get_num_leaves(d)
    IN IF r.kind # "Ok" THEN r
       ELSE IF r.val = <<>> THEN Ok(0) ELSE Ok(r.val[1])

is_empty(d) ==
    LET r == len(d)
    IN IF r.kind # "Ok" THEN r ELSE Ok(r.val = 0)

get_node_hash(d, idx) ==
    IF DbHas(d, node_key(idx))
    THEN IF d[node_key(idx)].len = HASH_SIZE
         THEN Ok(d[node_key(idx)].v)
         ELSE Err("EncodingError")
    ELSE Err("InconsistentState")

get_node_hash_internal(d, idx) == get_node_hash(d, idx)

\* variant: the versioned entry is never consulted
get_node_hash_at_version_current(d, idx, version) == get_node_hash(d, idx)

\* variant: the versioned entry is never found
versioned_entry_absent(d, idx, version) == <<>>

\* the read of the versioned entry in get_node_hash_at_version: <<result>>
\* when the entry exists, <<>> when the method falls back to the current node
versioned_entry(d, idx, version) ==
    IF DbHas(d, versioned_node_key(idx, version))
    THEN IF d[versioned_node_key(idx, version)].len = HASH_SIZE
         THEN <<Ok(d[versioned_node_key(idx, version)].v)>>
         ELSE <<Err("EncodingError")>>
    ELSE <<>>

get_node_hash_at_version(d, idx, version) ==
    LET v == versioned_entry(d, idx, version)
    IN IF Len(v) > 0 THEN v[1] ELSE get_node_hash(d, idx)

\* root once len() has returned num_leaves: Ok(<<hash, num_leaves>>)
root_of_len(d, num_leaves) ==
    IF num_leaves = 0 THEN Ok(<<EmptyHash, 0>>)
    ELSE LET h == get_node_hash_internal(d, root_idx(num_leaves))
         IN IF h.kind # "Ok" THEN h ELSE Ok(<<h.val, num_leaves>>)

\* root, run to completion
root(d) ==
    LET n == len(d)
    IN IF n.kind # "Ok" THEN n ELSE root_of_len(d, n.val)

\* get: Ok(<<item>>) for Some(item), Ok(<<>>) for None
get(d, idx) ==
    IF DbHas(d, leaf_key(idx))
    THEN IF DeserializeOk(d[leaf_key(idx)].v)
         THEN Ok(<<Deserialize(d[leaf_key(idx)].v)>>)
         ELSE Err("EncodingError")
    ELSE Ok(<<>>)

\* try_join_all over the fetches: the hashes in order, or the first error
try_join_all(results) ==
    LET failed == {i \in 1..Len(results) : results[i].kind # "Ok"}
    IN IF failed = {}
       THEN Ok([i \in 1..Len(results) |-> results[i].val])
       ELSE results[CHOOSE i \in failed : \A j \in failed : i <= j]

\* the current-node hashes of idxs, fetched in parallel
fetch_current(d, idxs) ==
    try_join_all([i \in 1..Len(idxs) |-> get_node_hash_internal(d, idxs[i])])

\* the hashes of idxs as of `version`, fetched in parallel
fetch_at_version(d, idxs, version) ==
    try_join_all([i \in 1..Len(idxs) |-> get_node_hash_at_version(d, idxs[i], version)])

\* variant: the proof hashes are returned top to bottom
prove_inclusion_reversed(d, idx) ==
    LET n == len(d)
        idxs == indices_for_inclusion_proof(n.val, idx)
    IN IF n.kind # "Ok" THEN n
       ELSE IF idx >= n.val THEN Err("InconsistentState")
       ELSE fetch_current(d, [i \in 1..Len(idxs) |-> idxs[Len(idxs) + 1 - i]])

\* variant: the index one past the last leaf is let through
out_of_bounds_above(idx, num_leaves) == idx > num_leaves

\* idx >= num_leaves, the bounds check of prove_inclusion
out_of_bounds(idx, num_leaves) == idx >= num_leaves

\* prove_inclusion once len() has returned num_leaves
prove_inclusion_of_len(d, idx, num_leaves) ==
    IF out_of_bounds(idx, num_leaves) THEN Err("InconsistentState")
    ELSE fetch_current(d, indices_for_inclusion_proof(num_leaves, idx))

\* prove_inclusion, run to completion
prove_inclusion(d, idx) ==
    LET n == len(d)
    IN IF n.kind # "Ok" THEN n ELSE prove_inclusion_of_len(d, idx, n.val)

prove_inclusion_at_size(d, idx, tree_size) ==
    LET n == len(d)
    IN IF n.kind # "Ok" THEN n
       ELSE IF tree_size > n.val THEN Err("InconsistentState")
       ELSE IF idx >= tree_size THEN Err("InconsistentState")
       ELSE fetch_at_version(d, indices_for_inclusion_proof(tree_size, idx), tree_size)

\* variant: the current size itself is accepted as the old size
prove_consistency_up_to_size(d, old_size) ==
    LET n == len(d)
    IN IF n.kind # "Ok" THEN n
       ELSE IF old_size = 0 THEN Err("InconsistentState")
       ELSE IF old_size > n.val THEN Err("InconsistentState")
       ELSE fetch_current(d, indices_for_consistency_proof(old_size, n.val - old_size))

prove_consistency(d, old_size) ==
    LET n == len(d)
    IN IF n.kind # "Ok" THEN n
       ELSE IF old_size = 0 THEN Err("InconsistentState")
       ELSE IF old_size >= n.val THEN Err("InconsistentState")
       ELSE fetch_current(d, indices_for_consistency_proof(old_size, n.val - old_size))

\* variant: equal sizes are not answered before the leaf count is read
prove_consistency_between_args_unequal(old_size, new_size) ==
    IF old_size = 0 THEN <<Err("InconsistentState")>>
    ELSE IF old_size > new_size THEN <<Err("InconsistentState")>>
    ELSE <<>>

\* the checks prove_consistency_between makes on its arguments before it reads
\* anything: <<result>> when they settle the call, <<>> when it goes on
prove_consistency_between_args(old_size, new_size) ==
    IF old_size = 0 THEN <<Err("InconsistentState")>>
    ELSE IF old_size > new_size THEN <<Err("InconsistentState")>>
    ELSE IF old_size = new_size THEN <<Ok(<<>>)>>
    ELSE <<>>

\* prove_consistency_between once len() has returned num_leaves
prove_consistency_between_of_len(d, old_size, new_size, num_leaves) ==
    IF new_size > num_leaves THEN Err("InconsistentState")
    ELSE fetch_current(d, indices_for_consistency_proof(old_size, new_size - old_size))

\* prove_consistency_between, run to completion
prove_consistency_between(d, old_size, new_size) ==
    LET early == prove_consistency_between_args(old_size, new_size)
        n == len(d)
    IN IF Len(early) > 0 THEN early[1]
       ELSE IF n.kind # "Ok" THEN n
       ELSE prove_consistency_between_of_len(d, old_size, new_size, n.val)

(***************************************************************************)
(* Append engine.                                                          *)
(***************************************************************************)
\* the siblings on the path of the new leaf at leaf_position that lie in the
\* original tree (index below starting_index * 2)
RECURSIVE PrefetchWalk(_, _, _)
PrefetchWalk(cur_idx, tree_size_when_processing, starting_index) ==
    IF cur_idx = root_idx(tree_size_when_processing) THEN {}
    ELSE LET sibling_idx == sibling(cur_idx, tree_size_when_processing)
         IN (IF sibling_idx < starting_index * 2 THEN {sibling_idx} ELSE {})
            \cup PrefetchWalk(parent(cur_idx, tree_size_when_processing),
                              tree_size_when_processing, starting_index)

nodes_to_prefetch(starting_index, num_items) ==
    UNION {PrefetchWalk(LeafToInternal(starting_index + i), starting_index + i + 1,
                        starting_index) : i \in 0..(num_items - 1)}

\* variant: every entry found is taken as a hash, whatever its length
prefetched_nodes_any_length(d, starting_index, num_items) ==
    LET found == {idx \in nodes_to_prefetch(starting_index, num_items) :
                     DbHas(d, node_key(idx))}
    IN [idx \in found |-> d[node_key(idx)].v]

\* the prefetched_nodes map: entries found in the store with the digest's length
prefetched_nodes(d, starting_index, num_items) ==
    LET found == {idx \in nodes_to_prefetch(starting_index, num_items) :
                     /\ DbHas(d, node_key(idx))
                     /\ d[node_key(idx)].len = HASH_SIZE}
    IN [idx \in found |-> d[node_key(idx)].v]

\* variant: hashes computed earlier in the same batch are not looked up
sibling_hash_batch_uncomputed(d, sibling_idx, current_num_leaves, computed_hashes, prefetched) ==
    IF sibling_idx >= current_num_leaves * 2 THEN Ok(ZeroHash)
    ELSE IF sibling_idx \in DOMAIN prefetched THEN Ok(prefetched[sibling_idx])
    ELSE IF DbHas(d, node_key(sibling_idx))
         THEN IF d[node_key(sibling_idx)].len = HASH_SIZE
              THEN Ok(d[node_key(sibling_idx)].v)
              ELSE Err("EncodingError")
    ELSE Ok(ZeroHash)

\* the sibling's hash in batch_push_with_data
sibling_hash_batch(d, sibling_idx, current_num_leaves, computed_hashes, prefetched) ==
    IF sibling_idx \in DOMAIN computed_hashes THEN Ok(computed_hashes[sibling_idx])
    ELSE IF sibling_idx >= current_num_leaves * 2 THEN Ok(ZeroHash)
    ELSE IF sibling_idx \in DOMAIN prefetched THEN Ok(prefetched[sibling_idx])
    ELSE IF DbHas(d, node_key(sibling_idx))
         THEN IF d[node_key(sibling_idx)].len = HASH_SIZE
              THEN Ok(d[node_key(sibling_idx)].v)
              ELSE Err("EncodingError")
    ELSE Ok(ZeroHash)

\* variant: the walked node is always hashed as the left child
oriented_parent_hash_unoriented(cur_idx, num_leaves, cur_hash, sibling_hash) ==
    parent_hash(cur_hash, sibling_hash)

\* parent_hash with the orientation given by is_left
oriented_parent_hash(cur_idx, num_leaves, cur_hash, sibling_hash) ==
    IF is_left(cur_idx, num_leaves)
    THEN parent_hash(cur_hash, sibling_hash)
    ELSE parent_hash(sibling_hash, cur_hash)

\* variant: only the versioned entry is written
node_puts_versioned_only(idx, version, hash) == << <<versioned_node_key(idx, version), HashBytes(hash)>> >>

\* variant: the versioned entry is keyed one size too high
node_puts_next_version(idx, version, hash) == << <<node_key(idx), HashBytes(hash)>>, <<versioned_node_key(idx, version + 1), HashBytes(hash)>> >>

\* variant: only the current entry is written
node_puts_current_only(idx, version, hash) == << <<node_key(idx), HashBytes(hash)>> >>

\* the two puts of a recomputed node: current entry and versioned entry
node_puts(idx, version, hash) ==
    << <<node_key(idx), HashBytes(hash)>>,
       <<versioned_node_key(idx, version), HashBytes(hash)>> >>

\* variant: every leaf is stored under the key of position 0
leaf_put_first(position, item) == <<leaf_key(0), Bytes(Serialize(item))>>

\* variant: the leaf is stored one position too far
leaf_put_next(position, item) == <<leaf_key(position + 1), Bytes(Serialize(item))>>

\* the put of a new leaf: its serialized bytes under its position's key
leaf_put(position, item) == <<leaf_key(position), Bytes(Serialize(item))>>

\* variant: the stored count is one short
meta_put_short(count) == <<META_KEY, Bytes(to_be_bytes(count - 1))>>

\* the put of the leaf count
meta_put(count) == <<META_KEY, Bytes(to_be_bytes(count))>>

\* the inner while loop of batch_push_with_data; st = [kind, batch, computed]
RECURSIVE batch_walk(_, _, _, _, _, _)
batch_walk(d, st, cur_idx, cur_hash, new_num_leaves, prefetched) ==
    IF cur_idx = root_idx(new_num_leaves) THEN st
    ELSE LET parent_idx == parent(cur_idx, new_num_leaves)
             sibling_idx == sibling(cur_idx, new_num_leaves)
             sh == sibling_hash_batch(d, sibling_idx, new_num_leaves - 1,
                                      st.computed, prefetched)
             ph == oriented_parent_hash(cur_idx, new_num_leaves, cur_hash, sh.val)
         IN IF sh.kind # "Ok" THEN [st EXCEPT !.kind = sh.kind]
            ELSE batch_walk(d,
                     [kind |-> "Ok",
                      batch |-> st.batch \o node_puts(parent_idx, new_num_leaves, ph),
                      computed |-> Put(st.computed, parent_idx, ph)],
                     parent_idx, ph, new_num_leaves, prefetched)

\* the loop over the items of batch_push_with_data
RECURSIVE batch_items(_, _, _, _, _)
batch_items(d, st, items, current_num_leaves, prefetched) ==
    IF items = <<>> \/ st.kind # "Ok" THEN st
    ELSE LET item == items[1]
             new_num_leaves == current_num_leaves + 1
             cur_idx == LeafToInternal(current_num_leaves)
             lh == leaf_hash(item)
             st1 == [kind |-> "Ok",
                     batch |-> st.batch
                               \o <<leaf_put(current_num_leaves, item)>>
                               \o node_puts(cur_idx, new_num_leaves, lh),
                     computed |-> Put(st.computed, cur_idx, lh)]
             st2 == batch_walk(d, st1, cur_idx, lh, new_num_leaves, prefetched)
         IN batch_items(d, st2, Tail(items), new_num_leaves, prefetched)

\* variant: the additional pairs are not put into the batch
batch_of_batch_push_without_data(d, starting_index, items, additional_data, prefetched) ==
    LET st == batch_items(d, [kind |-> "Ok", batch |-> <<>>, computed |-> <<>>],
                          items, starting_index, prefetched)
    IN [kind |-> st.kind,
        batch |-> st.batch \o <<meta_put(starting_index + Len(items))>>]

\* the WriteBatch built by batch_push_with_data: [kind, batch]
batch_of_batch_push(d, starting_index, items, additional_data, prefetched) ==
    LET st == batch_items(d, [kind |-> "Ok", batch |-> <<>>, computed |-> <<>>],
                          items, starting_index, prefetched)
    IN [kind |-> st.kind,
        batch |-> st.batch
                  \o <<meta_put(starting_index + Len(items))>>
                  \o additional_data]

\* the sibling's hash in recalculate_path_batch
sibling_hash_push(d, sibling_idx, computed_hashes) ==
    IF sibling_idx \in DOMAIN computed_hashes THEN Ok(computed_hashes[sibling_idx])
    ELSE IF DbHas(d, node_key(sibling_idx))
         THEN IF d[node_key(sibling_idx)].len = HASH_SIZE
              THEN Ok(d[node_key(sibling_idx)].v)
              ELSE Err("EncodingError")
    ELSE Ok(ZeroHash)

\* the while loop of recalculate_path_batch; st = [kind, batch, computed]
RECURSIVE push_walk(_, _, _, _)
push_walk(d, st, cur_idx, num_leaves) ==
    IF cur_idx = root_idx(num_leaves) THEN st
    ELSE LET parent_idx == parent(cur_idx, num_leaves)
             sibling_idx == sibling(cur_idx, num_leaves)
             sh == sibling_hash_push(d, sibling_idx, st.computed)
         IN IF cur_idx \notin DOMAIN st.computed
            THEN [st EXCEPT !.kind = "InconsistentState"]
            ELSE IF sh.kind # "Ok" THEN [st EXCEPT !.kind = sh.kind]
            ELSE LET ph == oriented_parent_hash(cur_idx, num_leaves,
                                                st.computed[cur_idx], sh.val)
                 IN push_walk(d,
                        [kind |-> "Ok",
                         batch |-> st.batch \o node_puts(parent_idx, num_leaves, ph),
                         computed |-> Put(st.computed, parent_idx, ph)],
                        parent_idx, num_leaves)

recalculate_path_batch(d, batch, leaf_idx, leaf_val, num_leaves) ==
    LET cur_idx == LeafToInternal(leaf_idx)
        lh == leaf_hash(leaf_val)
    IN push_walk(d,
           [kind |-> "Ok",
            batch |-> batch \o node_puts(cur_idx, num_leaves, lh),
            computed |-> Put(<<>>, cur_idx, lh)],
           cur_idx, num_leaves)

\* the WriteBatch built by push: [kind, batch]
batch_of_push(d, num_leaves, new_val) ==
    LET st == recalculate_path_batch(d, <<leaf_put(num_leaves, new_val)>>,
                                     num_leaves, new_val, num_leaves + 1)
    IN [kind |-> st.kind, batch |-> st.batch \o <<meta_put(num_leaves + 1)>>]

\* u64::MAX, at the width of the model's u64
U64_MAX == Pow2(U64_BITS) - 1

\* variant: the first put of the batch is written through at once
staged_write_through(d, batch) ==
    IF batch = <<>> THEN d ELSE Put(d, batch[1][1], batch[1][2])

\* WriteBatch::put stages a put in memory: the store is as it was until
\* Db::write commits the batch
staged(d, batch) == d

\* variant: the failing write has applied the first put of the batch
failed_write_partial(d, batch) ==
    IF batch = <<>> THEN d ELSE Put(d, batch[1][1], batch[1][2])

\* Db::write returning an error: the batch is atomic, none of it is applied
failed_write(d, batch) == d

\* the two kinds of DbHandle
ReadWrite == "ReadWrite"
ReadOnly == "ReadOnly"

\* variant: the kind of handle is not looked at, every batch commits
DbHandle_write_unchecked(handle, d, batch) ==
    [result |-> Ok(<<>>), db |-> ApplyBatch(d, batch)]

\* DbHandle::write: the batch commits on a read-write handle; a read-only
\* handle refuses it
DbHandle_write(handle, d, batch) ==
    IF handle = ReadWrite
    THEN [result |-> Ok(<<>>), db |-> ApplyBatch(d, batch)]
    ELSE [result |-> Err("InconsistentState"), db |-> d]

\* DbHandle::put
DbHandle_put(handle, d, key, value) ==
    IF handle = ReadWrite
    THEN [result |-> Ok(<<>>), db |-> Put(d, key, value)]
    ELSE [result |-> Err("InconsistentState"), db |-> d]

set_num_leaves(handle, d, count) ==
    DbHandle_put(handle, d, META_KEY, Bytes(to_be_bytes(count)))

\* variant: the leaf count is reset without looking for an existing one
new_always_initializes(d) == set_num_leaves(ReadWrite, d, 0)

\* SlateDbBackedTree::new: [result, db]; the leaf count is set to 0 when the
\* store has none
new(d) ==
    LET existing_leaves == get_num_leaves(d)
    IN IF existing_leaves.kind # "Ok" THEN [result |-> existing_leaves, db |-> d]
       ELSE IF existing_leaves.val = <<>> THEN set_num_leaves(ReadWrite, d, 0)
       ELSE [result |-> Ok(<<>>), db |-> d]

\* SlateDbBackedTree::from_reader: no read, no write
from_reader(d) == [result |-> Ok(<<>>), db |-> d]

\* variant: the call returns early whenever there are no items
nothing_to_commit_without_items(items, additional_data) == items = <<>>

\* items.is_empty() && additional_data.is_empty()
nothing_to_commit(items, additional_data) == items = <<>> /\ additional_data = <<>>

\* variant: the size after the append is returned
batch_push_result_new_size(starting_index, current_num_leaves) ==
    Ok(<<current_num_leaves>>)

\* Ok(starting_index), what batch_push_with_data returns after the commit
batch_push_result(starting_index, current_num_leaves) == Ok(<<starting_index>>)

\* push on a handle, run to completion: [result, db]; Ok(<<>>) is Ok(())
push_on(handle, d, new_val) ==
    LET n == len(d)
        b == batch_of_push(d, n.val, new_val)
        w == DbHandle_write(handle, staged(d, b.batch), b.batch)
    IN IF n.kind # "Ok" THEN [result |-> n, db |-> d]
       ELSE IF n.val >= U64_MAX \div 2
            THEN [result |-> Err("InconsistentState"), db |-> d]
       ELSE IF b.kind # "Ok" THEN [result |-> Err(b.kind), db |-> staged(d, b.batch)]
       ELSE w

\* batch_push_with_data on a handle, run to completion: [result, db];
\* Ok(<<i>>) is Ok(starting index i)
batch_push_with_data_on(handle, d, items, additional_data) ==
    LET n == len(d)
        b == batch_of_batch_push(d, n.val, items, additional_data,
                                 prefetched_nodes(d, n.val, Len(items)))
        w == DbHandle_write(handle, staged(d, b.batch), b.batch)
    IN IF n.kind # "Ok" THEN [result |-> n, db |-> d]
       ELSE IF nothing_to_commit(items, additional_data)
            THEN [result |-> Ok(<<n.val>>), db |-> d]
       ELSE IF b.kind # "Ok" THEN [result |-> Err(b.kind), db |-> staged(d, b.batch)]
       ELSE IF w.result.kind # "Ok" THEN w
       ELSE [result |-> batch_push_result(n.val, n.val + Len(items)), db |-> w.db]

\* the calls on the read-write handle that SlateDbBackedTree::new returns
push(d, new_val) == push_on(ReadWrite, d, new_val)

batch_push_with_data(d, items, additional_data) ==
    batch_push_with_data_on(ReadWrite, d, items, additional_data)

batch_push(d, items) == batch_push_with_data(d, items, <<>>)

(***************************************************************************)
(* RFC 6962 reference: tree hash, audit path, consistency proof and the    *)
(* verification algorithms, over the plain list of leaves.                 *)
(***************************************************************************)
\* largest power of two strictly smaller than n (n >= 2)
SplitPoint(n) == Pow2(Log2(n - 1))

RECURSIVE RFC_MTH(_)
RFC_MTH(D) ==
    LET n == Len(D)
        k == SplitPoint(n)
    IN IF n = 0 THEN EmptyHash
       ELSE IF n = 1 THEN leaf_hash(D[1])
       ELSE parent_hash(RFC_MTH(SubSeq(D, 1, k)), RFC_MTH(SubSeq(D, k + 1, n)))

\* PATH(m, D[n]), m a 0-based leaf index
RECURSIVE RFC_PATH(_, _)
RFC_PATH(m, D) ==
    LET n == Len(D)
        k == SplitPoint(n)
    IN IF n <= 1 THEN <<>>
       ELSE IF m < k
            THEN RFC_PATH(m, SubSeq(D, 1, k)) \o <<RFC_MTH(SubSeq(D, k + 1, n))>>
            ELSE RFC_PATH(m - k, SubSeq(D, k + 1, n)) \o <<RFC_MTH(SubSeq(D, 1, k))>>

\* SUBPROOF(m, D[n], b)
RECURSIVE RFC_SUBPROOF(_, _, _)
RFC_SUBPROOF(m, D, b) ==
    LET n == Len(D)
        k == SplitPoint(n)
    IN IF m = n THEN (IF b THEN <<>> ELSE <<RFC_MTH(D)>>)
       ELSE IF m <= k
            THEN RFC_SUBPROOF(m, SubSeq(D, 1, k), b) \o <<RFC_MTH(SubSeq(D, k + 1, n))>>
            ELSE RFC_SUBPROOF(m - k, SubSeq(D, k + 1, n), FALSE)
                 \o <<RFC_MTH(SubSeq(D, 1, k))>>

\* PROOF(m, D[n]), 0 < m <= n
RFC_PROOF(m, D) == RFC_SUBPROOF(m, D, TRUE)

\* shift fn and sn right until the low bit of fn is set or fn = 0
RECURSIVE ShiftWhileEven(_, _)
ShiftWhileEven(fn, sn) ==
    IF fn % 2 = 1 \/ fn = 0 THEN <<fn, sn>>
    ELSE ShiftWhileEven(fn \div 2, sn \div 2)

\* the audit-path walk: <<ok, hash, sn>> after consuming the path
RECURSIVE InclusionWalk(_, _, _, _)
InclusionWalk(path, fn, sn, r) ==
    IF path = <<>> THEN <<TRUE, r, sn>>
    ELSE IF sn = 0 THEN <<FALSE, r, sn>>
    ELSE IF fn % 2 = 1 \/ fn = sn
         THEN LET s == IF fn % 2 = 1 THEN <<fn, sn>> ELSE ShiftWhileEven(fn, sn)
              IN InclusionWalk(Tail(path), s[1] \div 2, s[2] \div 2,
                               parent_hash(path[1], r))
         ELSE InclusionWalk(Tail(path), fn \div 2, sn \div 2, parent_hash(r, path[1]))

\* does `path` prove that `leaf` is leaf number leaf_index of the tree of
\* tree_size leaves whose root hash is root_hash
VerifyInclusion(leaf, leaf_index, tree_size, path, root_hash) ==
    /\ leaf_index < tree_size
    /\ LET w == InclusionWalk(path, leaf_index, tree_size - 1, leaf_hash(leaf))
       IN w[1] /\ w[3] = 0 /\ w[2] = root_hash

\* shift fn and sn right while the low bit of fn is set
RECURSIVE ShiftWhileOdd(_, _)
ShiftWhileOdd(fn, sn) ==
    IF fn % 2 = 0 THEN <<fn, sn>>
    ELSE ShiftWhileOdd(fn \div 2, sn \div 2)

\* the consistency walk: <<ok, fr, sr, sn>> after consuming the path
RECURSIVE ConsistencyWalk(_, _, _, _, _)
ConsistencyWalk(path, fn, sn, fr, sr) ==
    IF path = <<>> THEN <<TRUE, fr, sr, sn>>
    ELSE IF sn = 0 THEN <<FALSE, fr, sr, sn>>
    ELSE IF fn % 2 = 1 \/ fn = sn
         THEN LET s == IF fn % 2 = 1 THEN <<fn, sn>> ELSE ShiftWhileEven(fn, sn)
              IN ConsistencyWalk(Tail(path), s[1] \div 2, s[2] \div 2,
                                 parent_hash(path[1], fr), parent_hash(path[1], sr))
         ELSE ConsistencyWalk(Tail(path), fn \div 2, sn \div 2,
                              fr, parent_hash(sr, path[1]))

\* does `proof` prove that the tree of `first` leaves with root first_hash is
\* a prefix of the tree of `second` leaves with root second_hash (first < second)
VerifyConsistency(first, second, proof, first_hash, second_hash) ==
    /\ 0 < first /\ first < second
    /\ proof # <<>>
    /\ LET path == IF IsPowerOfTwo(first) THEN <<first_hash>> \o proof ELSE proof
           s == ShiftWhileOdd(first - 1, second - 1)
           w == ConsistencyWalk(Tail(path), s[1], s[2], path[1], path[1])
       IN w[1] /\ w[4] = 0 /\ w[2] = first_hash /\ w[3] = second_hash

(***************************************************************************)
(* State.                                                                  *)
(***************************************************************************)
VARIABLES
    db,        \* the KV backend: key -> stored bytes
    pc,        \* the await point the in-flight append is suspended at
    op,        \* the locals of the in-flight append
    result,    \* what the last completed call returned
    appended,  \* history: the items of the successful appends, in order
    handle,    \* the tree handle: its kind, and how often the store was opened
    rd,        \* a reader task on the same store: its await point and locals
    w2         \* a second appending task on the same store

vars == <<db, pc, op, result, appended, handle, rd, w2>>

\* what the appends of a single read-write handle leave alone
env == <<handle, rd, w2>>

NoOp == [name |-> "none", items |-> <<>>, extras |-> <<>>, starting_index |-> 0,
         batch |-> <<>>, pre |-> <<>>]

\* no read in flight
NoRead == [pc |-> "idle", name |-> "none", arg |-> 0, n |-> 0, result |-> Ok(<<>>)]

\* no second append in flight
NoAppend == [pc |-> "idle", items |-> <<>>, starting_index |-> 0, batch |-> <<>>,
             result |-> Ok(<<>>)]

\* no handle on the store
Closed == "Closed"

\* what len(), root() and get(i) return on the store d
View(d) == [len |-> len(d), root |-> root(d),
            leaves |-> [i \in 0..(MaxHandleLeaves + MaxBatch) |-> get(d, i)]]

\* SlateDbBackedTree::new on an empty backend: META is absent, so it is set to 0
Init ==
    /\ db = new(<<>>).db
    /\ pc = "idle"
    /\ op = NoOp
    /\ result = Ok(<<>>)
    /\ appended = <<>>
    /\ handle = [mode |-> ReadWrite, opens |-> 1, view |-> View(<<>>)]
    /\ rd = NoRead
    /\ w2 = NoAppend

num_leaves == len(db).val

(***************************************************************************)
(* Spec: the appends of a single caller, each run to completion.           *)
(***************************************************************************)
Push ==
    \E new_val \in Items :
        /\ pc = "idle"
        /\ num_leaves < MaxLeaves
        /\ LET o == push(db, new_val)
           IN /\ db' = o.db
              /\ result' = o.result
              /\ appended' = IF o.result.kind = "Ok"
                             THEN Append(appended, new_val) ELSE appended
        /\ UNCHANGED <<pc, op>>
        /\ UNCHANGED env

BatchPush ==
    \E items \in Batches :
        /\ pc = "idle"
        /\ num_leaves + Len(items) <= MaxLeaves
        /\ LET o == batch_push(db, items)
           IN /\ db' = o.db
              /\ result' = o.result
              /\ appended' = IF o.result.kind = "Ok"
                             THEN appended \o items ELSE appended
        /\ UNCHANGED <<pc, op>>
        /\ UNCHANGED env

Next == Push \/ BatchPush

Spec == Init /\ [][Next]_vars

(***************************************************************************)
(* SpecSteps: one append at a time, followed from await to await.  pc is   *)
(* the await the call is suspended at:                                     *)
(*   "len"       self.len().await                                          *)
(*   "prefetch"  try_join_all(prefetch reads).await   (batch_push)         *)
(*   "siblings"  the db.get reads of recalculate_path_batch   (push)       *)
(*   "write"     self.db.write(batch).await                                *)
(* At every await the backend may fail the pending operation, and the      *)
(* caller may drop the future.                                             *)
(***************************************************************************)
Return(r) ==
    /\ pc' = "idle"
    /\ op' = NoOp
    /\ result' = r

CallPush ==
    \E new_val \in Items :
        /\ pc = "idle"
        /\ num_leaves < MaxStepLeaves
        /\ pc' = "len"
        /\ op' = [NoOp EXCEPT !.name = "push", !.items = <<new_val>>, !.pre = db]
        /\ UNCHANGED <<db, result, appended>>
        /\ UNCHANGED env

CallBatchPush ==
    \E items \in Batches :
        /\ pc = "idle"
        /\ num_leaves + Len(items) <= MaxStepLeaves
        /\ pc' = "len"
        /\ op' = [NoOp EXCEPT !.name = "batch_push", !.items = items, !.pre = db]
        /\ UNCHANGED <<db, result, appended>>
        /\ UNCHANGED env

\* push resumes with the leaf count
PushLenDone ==
    /\ pc = "len" /\ op.name = "push"
    /\ LET n == len(db)
           b == batch_of_push(db, n.val, op.items[1])
       IN IF n.kind # "Ok" THEN Return(n) /\ db' = db
          ELSE IF n.val >= U64_MAX \div 2
               THEN Return(Err("InconsistentState")) /\ db' = db
          ELSE IF n.val = 0
               \* the new leaf is the root: no sibling to read
               THEN /\ pc' = "write"
                    /\ op' = [op EXCEPT !.starting_index = n.val, !.batch = b.batch]
                    /\ db' = staged(db, b.batch)
                    /\ UNCHANGED result
          ELSE /\ pc' = "siblings"
               /\ op' = [op EXCEPT !.starting_index = n.val]
               /\ UNCHANGED <<db, result>>
    /\ UNCHANGED <<appended, env>>

\* push resumes with the siblings read and stages the batch
SiblingsDone ==
    /\ pc = "siblings"
    /\ LET b == batch_of_push(db, op.starting_index, op.items[1])
       IN IF b.kind # "Ok"
          THEN Return(Err(b.kind)) /\ db' = staged(db, b.batch)
          ELSE /\ pc' = "write"
               /\ op' = [op EXCEPT !.batch = b.batch]
               /\ db' = staged(db, b.batch)
               /\ UNCHANGED result
    /\ UNCHANGED <<appended, env>>

\* batch_push resumes with the leaf count
BatchLenDone ==
    /\ pc = "len" /\ op.name # "push"
    /\ LET n == len(db)
           b == batch_of_batch_push(db, n.val, op.items, op.extras, <<>>)
       IN IF n.kind # "Ok" THEN Return(n) /\ db' = db
          ELSE IF nothing_to_commit(op.items, op.extras)
               THEN Return(Ok(<<n.val>>)) /\ db' = db
          ELSE IF nodes_to_prefetch(n.val, Len(op.items)) # {}
               THEN /\ pc' = "prefetch"
                    /\ op' = [op EXCEPT !.starting_index = n.val]
                    /\ UNCHANGED <<db, result>>
          ELSE IF b.kind # "Ok"
               THEN Return(Err(b.kind)) /\ db' = staged(db, b.batch)
          ELSE /\ pc' = "write"
               /\ op' = [op EXCEPT !.starting_index = n.val, !.batch = b.batch]
               /\ db' = staged(db, b.batch)
               /\ UNCHANGED result
    /\ UNCHANGED <<appended, env>>

\* batch_push resumes with the prefetched nodes and stages the batch
PrefetchDone ==
    /\ pc = "prefetch"
    /\ LET b == batch_of_batch_push(db, op.starting_index, op.items, op.extras,
                    prefetched_nodes(db, op.starting_index, Len(op.items)))
       IN IF b.kind # "Ok"
          THEN Return(Err(b.kind)) /\ db' = staged(db, b.batch)
          ELSE /\ pc' = "write"
               /\ op' = [op EXCEPT !.batch = b.batch]
               /\ db' = staged(db, b.batch)
               /\ UNCHANGED result
    /\ UNCHANGED <<appended, env>>

\* the batch commits and the call returns
WriteDone ==
    /\ pc = "write"
    /\ db' = ApplyBatch(db, op.batch)
    /\ Return(IF op.name = "push" THEN Ok(<<>>)
              ELSE batch_push_result(op.starting_index,
                                     op.starting_index + Len(op.items)))
    /\ appended' = appended \o op.items
    /\ UNCHANGED env

\* the pending backend operation fails and the call returns the error
BackendError ==
    /\ pc # "idle"
    /\ db' = IF pc = "write" THEN failed_write(db, op.batch) ELSE db
    /\ Return(Err("DbError"))
    /\ UNCHANGED <<appended, env>>

\* the caller drops the future at the await, before any commit has begun
\* (a drop once the commit has begun is WriteDone with the result discarded)
Cancel ==
    /\ pc # "idle"
    /\ db' = db
    /\ Return([kind |-> "Cancelled", val |-> <<>>])
    /\ UNCHANGED <<appended, env>>

NextSteps ==
    \/ CallPush \/ CallBatchPush
    \/ PushLenDone \/ SiblingsDone
    \/ BatchLenDone \/ PrefetchDone
    \/ WriteDone
    \/ BackendError \/ Cancel

SpecSteps == Init /\ [][NextSteps]_vars

(***************************************************************************)
(* SpecHandles: handles on one store are opened, used and closed, one at a *)
(* time, starting from a backend that was never opened.  Every call runs   *)
(* to completion; op keeps the name and the arguments of the last call,    *)
(* and handle.view what the reads returned when the last handle closed.    *)
(***************************************************************************)
\* a caller's own key, outside the four namespaces of the tree
extra_key(j) == <<"extra:", j>>

\* the additional_data a caller of the handles passes
HandleExtras == {<<>>, << <<extra_key(1), Bytes(<<7>>)>> >>}

InitHandles ==
    /\ db = <<>>
    /\ pc = "idle"
    /\ op = NoOp
    /\ result = Ok(<<>>)
    /\ appended = <<>>
    /\ handle = [mode |-> Closed, opens |-> 0, view |-> View(<<>>)]
    /\ rd = NoRead
    /\ w2 = NoAppend

\* SlateDbBackedTree::new(db)
Open ==
    /\ handle.mode = Closed
    /\ handle.opens < MaxOpens
    /\ LET o == new(db)
       IN /\ db' = o.db
          /\ result' = o.result
          /\ handle' = [handle EXCEPT !.opens = @ + 1,
                           !.mode = IF o.result.kind = "Ok" THEN ReadWrite ELSE Closed]
    /\ op' = [NoOp EXCEPT !.name = "new", !.pre = db]
    /\ UNCHANGED <<pc, appended, rd, w2>>

\* SlateDbBackedTree::from_reader(reader)
OpenReader ==
    /\ handle.mode = Closed
    /\ handle.opens < MaxOpens
    /\ LET o == from_reader(db)
       IN /\ db' = o.db
          /\ result' = o.result
          /\ handle' = [handle EXCEPT !.opens = @ + 1, !.mode = ReadOnly]
    /\ op' = [NoOp EXCEPT !.name = "from_reader", !.pre = db]
    /\ UNCHANGED <<pc, appended, rd, w2>>

\* the handle is dropped
Close ==
    /\ handle.mode # Closed
    /\ handle' = [handle EXCEPT !.mode = Closed, !.view = View(db)]
    /\ op' = [NoOp EXCEPT !.name = "close", !.pre = db]
    /\ UNCHANGED <<db, pc, result, appended, rd, w2>>

HandlePush ==
    \E new_val \in Items :
        /\ handle.mode # Closed
        /\ num_leaves < MaxHandleLeaves
        /\ LET o == push_on(handle.mode, db, new_val)
           IN /\ db' = o.db
              /\ result' = o.result
              /\ appended' = IF o.result.kind = "Ok"
                             THEN Append(appended, new_val) ELSE appended
        /\ op' = [NoOp EXCEPT !.name = "push", !.items = <<new_val>>, !.pre = db]
        /\ UNCHANGED <<pc, handle, rd, w2>>

HandleBatchPushWithData ==
    \E items \in Batches, additional_data \in HandleExtras :
        /\ handle.mode # Closed
        /\ num_leaves + Len(items) <= MaxHandleLeaves
        /\ LET o == batch_push_with_data_on(handle.mode, db, items, additional_data)
           IN /\ db' = o.db
              /\ result' = o.result
              /\ appended' = IF o.result.kind = "Ok"
                             THEN appended \o items ELSE appended
        /\ op' = [NoOp EXCEPT !.name = "batch_push_with_data", !.items = items,
                              !.extras = additional_data, !.pre = db]
        /\ UNCHANGED <<pc, handle, rd, w2>>

NextHandles ==
    \/ Open \/ OpenReader \/ Close
    \/ HandlePush \/ HandleBatchPushWithData

SpecHandles == InitHandles /\ [][NextHandles]_vars

(***************************************************************************)
(* SpecReaders: a reader task calls root() and prove_inclusion(idx) on the *)
(* store while the appends of SpecSteps proceed.  The reader is followed   *)
(* from await to await; rd.pc is the await it is suspended at:             *)
(*   "len"    self.len().await                                             *)
(*   "node"   get_node_hash_internal(root_idx).await   (root)              *)
(*   "fetch"  try_join_all(hash_futures).await   (prove_inclusion)         *)
(***************************************************************************)
ReadReturn(r) == rd' = [rd EXCEPT !.pc = "idle", !.result = r]

CallRoot ==
    /\ rd.pc = "idle"
    /\ rd' = [NoRead EXCEPT !.pc = "len", !.name = "root"]
    /\ UNCHANGED <<db, pc, op, result, appended, handle, w2>>

CallProveInclusion ==
    \E idx \in 0..MaxStepLeaves :
        /\ rd.pc = "idle"
        /\ rd' = [NoRead EXCEPT !.pc = "len", !.name = "prove_inclusion", !.arg = idx]
        /\ UNCHANGED <<db, pc, op, result, appended, handle, w2>>

\* the read resumes with the leaf count
ReadLenDone ==
    /\ rd.pc = "len"
    /\ LET n == len(db)
       IN IF n.kind # "Ok" THEN ReadReturn(n)
          ELSE IF rd.name = "root"
               THEN IF n.val = 0 THEN ReadReturn(root_of_len(db, n.val))
                    ELSE rd' = [rd EXCEPT !.pc = "node", !.n = n.val]
          ELSE IF out_of_bounds(rd.arg, n.val)
               THEN ReadReturn(prove_inclusion_of_len(db, rd.arg, n.val))
               ELSE rd' = [rd EXCEPT !.pc = "fetch", !.n = n.val]
    /\ UNCHANGED <<db, pc, op, result, appended, handle, w2>>

\* root resumes with the hash of the node at root_idx(num_leaves)
RootNodeDone ==
    /\ rd.pc = "node"
    /\ ReadReturn(root_of_len(db, rd.n))
    /\ UNCHANGED <<db, pc, op, result, appended, handle, w2>>

\* prove_inclusion resumes with the hashes of the copath
InclusionFetchDone ==
    /\ rd.pc = "fetch"
    /\ ReadReturn(prove_inclusion_of_len(db, rd.arg, rd.n))
    /\ UNCHANGED <<db, pc, op, result, appended, handle, w2>>

NextReaders ==
    \/ CallPush \/ CallBatchPush
    \/ PushLenDone \/ SiblingsDone
    \/ BatchLenDone \/ PrefetchDone
    \/ WriteDone
    \/ CallRoot \/ CallProveInclusion
    \/ ReadLenDone \/ RootNodeDone \/ InclusionFetchDone

SpecReaders == Init /\ [][NextReaders]_vars

(***************************************************************************)
(* SpecWriters: two tasks call batch_push on the same store (the tree is   *)
(* shared by reference and batch_push_with_data takes &self).  The first   *)
(* task is the one of SpecSteps (pc, op); the second is w2, followed over  *)
(* the same awaits.  w2 keeps the arguments and the starting index of its  *)
(* last call after it has returned.                                        *)
(***************************************************************************)
\* the items of the calls in flight
InFlight ==
    (IF pc = "idle" THEN 0 ELSE Len(op.items))
    + (IF w2.pc = "idle" THEN 0 ELSE Len(w2.items))

Call1 ==
    \E items \in Batches :
        /\ pc = "idle"
        /\ Len(appended) + InFlight + Len(items) <= MaxOverlapItems
        /\ pc' = "len"
        /\ op' = [NoOp EXCEPT !.name = "batch_push", !.items = items, !.pre = db]
        /\ UNCHANGED <<db, result, appended, env>>

Return2(r) == w2' = [w2 EXCEPT !.pc = "idle", !.result = r]

Call2 ==
    \E items \in Batches :
        /\ w2.pc = "idle"
        /\ Len(appended) + InFlight + Len(items) <= MaxOverlapItems
        /\ w2' = [NoAppend EXCEPT !.pc = "len", !.items = items]
        /\ UNCHANGED <<db, pc, op, result, appended, handle, rd>>

\* the second task resumes with the leaf count
Len2Done ==
    /\ w2.pc = "len"
    /\ LET n == len(db)
           b == batch_of_batch_push(db, n.val, w2.items, <<>>, <<>>)
       IN IF n.kind # "Ok" THEN Return2(n) /\ db' = db
          ELSE IF nothing_to_commit(w2.items, <<>>)
               THEN Return2(Ok(<<n.val>>)) /\ db' = db
          ELSE IF nodes_to_prefetch(n.val, Len(w2.items)) # {}
               THEN /\ w2' = [w2 EXCEPT !.pc = "prefetch", !.starting_index = n.val]
                    /\ db' = db
          ELSE IF b.kind # "Ok"
               THEN Return2(Err(b.kind)) /\ db' = staged(db, b.batch)
          ELSE /\ w2' = [w2 EXCEPT !.pc = "write", !.starting_index = n.val,
                                   !.batch = b.batch]
               /\ db' = staged(db, b.batch)
    /\ UNCHANGED <<pc, op, result, appended, handle, rd>>

\* the second task resumes with the prefetched nodes and stages its batch
Prefetch2Done ==
    /\ w2.pc = "prefetch"
    /\ LET b == batch_of_batch_push(db, w2.starting_index, w2.items, <<>>,
                    prefetched_nodes(db, w2.starting_index, Len(w2.items)))
       IN IF b.kind # "Ok"
          THEN Return2(Err(b.kind)) /\ db' = staged(db, b.batch)
          ELSE /\ w2' = [w2 EXCEPT !.pc = "write", !.batch = b.batch]
               /\ db' = staged(db, b.batch)
    /\ UNCHANGED <<pc, op, result, appended, handle, rd>>

\* the batch of the second task commits and its call returns
Write2Done ==
    /\ w2.pc = "write"
    /\ db' = ApplyBatch(db, w2.batch)
    /\ Return2(batch_push_result(w2.starting_index,
                                 w2.starting_index + Len(w2.items)))
    /\ appended' = appended \o w2.items
    /\ UNCHANGED <<pc, op, result, handle, rd>>

NextWriters ==
    \/ Call1 \/ BatchLenDone \/ PrefetchDone \/ WriteDone
    \/ Call2 \/ Len2Done \/ Prefetch2Done \/ Write2Done

SpecWriters == Init /\ [][NextWriters]_vars

(***************************************************************************)
(* SpecData: batch_push_with_data(items, additional_data) of a single      *)
(* caller, followed await by await as in SpecSteps, with backend failures  *)
(* and cancellation.  The additional pairs are the caller's own keys, and  *)
(* also pairs under keys of the tree, which the code does not refuse.      *)
(***************************************************************************)
\* the (key, value) pairs a caller passes along with the items
OwnPairs == {<<extra_key(1), Bytes(<<7>>)>>, <<extra_key(1), Bytes(<<8>>)>>,
             <<extra_key(2), Bytes(<<7>>)>>}

CollidingPairs == {<<META_KEY, Bytes(to_be_bytes(0))>>,
                   <<leaf_key(0), Bytes(Serialize(<<2>>))>>}

DataExtras ==
    {<<>>} \cup {<<p>> : p \in OwnPairs \cup CollidingPairs}
    \cup {<< <<extra_key(1), Bytes(<<7>>)>>, <<extra_key(2), Bytes(<<7>>)>> >>,
          << <<extra_key(1), Bytes(<<7>>)>>, <<extra_key(1), Bytes(<<8>>)>> >>}

CallBatchPushWithData ==
    \E items \in Batches, additional_data \in DataExtras :
        /\ pc = "idle"
        /\ num_leaves + Len(items) <= MaxDataLeaves
        /\ Len(appended) + Len(items) <= MaxDataLeaves
        /\ pc' = "len"
        /\ op' = [NoOp EXCEPT !.name = "batch_push_with_data", !.items = items,
                              !.extras = additional_data, !.pre = db]
        /\ UNCHANGED <<db, result, appended, env>>

NextData ==
    \/ CallBatchPushWithData
    \/ BatchLenDone \/ PrefetchDone
    \/ WriteDone
    \/ BackendError \/ Cancel

SpecData == Init /\ [][NextData]_vars

(***************************************************************************)
(* SpecFull: a single caller fills the tree up to its capacity.  The       *)
(* leaves are all alike; op keeps the name and the arguments of the last   *)
(* call.  batch_push has no capacity check of its own and is called while  *)
(* the new count stays at or below 2^(U64_BITS - 1), where no index of the *)
(* tree exceeds U64_MAX.                                                   *)
(***************************************************************************)
FullItems == {<<1>>}

FullBatches == UNION {[1..k -> FullItems] : k \in 0..MaxBatch}

FullPush ==
    \E new_val \in FullItems :
        /\ pc = "idle"
        /\ LET o == push(db, new_val)
           IN /\ db' = o.db
              /\ result' = o.result
              /\ appended' = IF o.result.kind = "Ok"
                             THEN Append(appended, new_val) ELSE appended
        /\ op' = [NoOp EXCEPT !.name = "push", !.items = <<new_val>>, !.pre = db]
        /\ UNCHANGED <<pc, env>>

FullBatchPush ==
    \E items \in FullBatches :
        /\ pc = "idle"
        /\ num_leaves + Len(items) <= Pow2(U64_BITS - 1)
        /\ LET o == batch_push(db, items)
           IN /\ db' = o.db
              /\ result' = o.result
              /\ appended' = IF o.result.kind = "Ok"
                             THEN appended \o items ELSE appended
        /\ op' = [NoOp EXCEPT !.name = "batch_push", !.items = items, !.pre = db]
        /\ UNCHANGED <<pc, env>>

NextFull == FullPush \/ FullBatchPush

SpecFull == Init /\ [][NextFull]_vars

(***************************************************************************)
(* SpecProofs: a reader task calls prove_inclusion_at_size(idx, tree_size) *)
(* and prove_consistency_between(old_size, new_size) while a caller        *)
(* appends; each append is one atomic commit.  The reader is followed from *)
(* await to await:                                                         *)
(*   "len"    self.len().await                                             *)
(*   "vnode"  self.db.get(versioned key).await  (get_node_hash_at_version) *)
(*   "node"   self.db.get(node key).await       (get_node_hash)            *)
(* The futures handed to try_join_all are followed in the order of the     *)
(* proof indices; rd.got holds the hashes fetched so far and rd.reads the  *)
(* keys the call has read from the store.                                  *)
(***************************************************************************)
MaxProofLeaves == 4

\* no proof call in flight
NoProof == [pc |-> "idle", name |-> "none", idx |-> 0, tree_size |-> 0,
            old_size |-> 0, new_size |-> 0, n |-> 0, got |-> <<>>,
            reads |-> {}, result |-> Ok(<<>>)]

InitProofs ==
    /\ db = new(<<>>).db
    /\ pc = "idle"
    /\ op = NoOp
    /\ result = Ok(<<>>)
    /\ appended = <<>>
    /\ handle = [mode |-> ReadWrite, opens |-> 1, view |-> View(<<>>)]
    /\ rd = NoProof
    /\ w2 = NoAppend

ProofPush ==
    \E new_val \in Items :
        /\ num_leaves < MaxProofLeaves
        /\ LET o == push(db, new_val)
           IN /\ db' = o.db
              /\ result' = o.result
              /\ appended' = IF o.result.kind = "Ok"
                             THEN Append(appended, new_val) ELSE appended
        /\ UNCHANGED <<pc, op, env>>

ProofBatchPush ==
    \E items \in Batches :
        /\ num_leaves + Len(items) <= MaxProofLeaves
        /\ LET o == batch_push(db, items)
           IN /\ db' = o.db
              /\ result' = o.result
              /\ appended' = IF o.result.kind = "Ok"
                             THEN appended \o items ELSE appended
        /\ UNCHANGED <<pc, op, env>>

ProofReturn(r) == rd' = [rd EXCEPT !.pc = "idle", !.result = r]

\* the indices whose hashes the call in flight fetches
proof_idxs(r) ==
    IF r.name = "prove_inclusion_at_size"
    THEN indices_for_inclusion_proof(r.tree_size, r.idx)
    ELSE indices_for_consistency_proof(r.old_size, r.new_size - r.old_size)

CallProveInclusionAtSize ==
    \E idx \in 0..MaxProofLeaves, tree_size \in 0..(MaxProofLeaves + 1) :
        /\ rd.pc = "idle"
        /\ rd' = [NoProof EXCEPT !.pc = "len", !.name = "prove_inclusion_at_size",
                                 !.idx = idx, !.tree_size = tree_size]
        /\ UNCHANGED <<db, pc, op, result, appended, handle, w2>>

\* the checks on the arguments run before the first await
CallProveConsistencyBetween ==
    \E old_size, new_size \in 0..(MaxProofLeaves + 1) :
        /\ rd.pc = "idle"
        /\ LET early == prove_consistency_between_args(old_size, new_size)
               call == [NoProof EXCEPT !.name = "prove_consistency_between",
                                       !.old_size = old_size, !.new_size = new_size]
           IN rd' = IF Len(early) > 0
                    THEN [call EXCEPT !.result = early[1]]
                    ELSE [call EXCEPT !.pc = "len"]
        /\ UNCHANGED <<db, pc, op, result, appended, handle, w2>>

\* the call resumes with the leaf count and starts its fetches
ProofLenDone ==
    /\ rd.pc = "len"
    /\ LET n == len(db)
           r == [rd EXCEPT !.reads = @ \cup {META_KEY}]
           refused == IF rd.name = "prove_inclusion_at_size"
                      THEN rd.tree_size > n.val \/ rd.idx >= rd.tree_size
                      ELSE rd.new_size > n.val
       IN IF n.kind # "Ok" THEN rd' = [r EXCEPT !.pc = "idle", !.result = n]
          ELSE IF refused
               THEN rd' = [r EXCEPT !.pc = "idle",
                                    !.result = Err("InconsistentState")]
          ELSE IF proof_idxs(rd) = <<>>
               THEN rd' = [r EXCEPT !.pc = "idle", !.n = n.val,
                                    !.result = try_join_all(<<>>)]
          ELSE rd' = [r EXCEPT !.n = n.val,
                               !.pc = IF rd.name = "prove_inclusion_at_size"
                                      THEN "vnode" ELSE "node"]
    /\ UNCHANGED <<db, pc, op, result, appended, handle, w2>>

\* the hash h of the next index has arrived
ProofGot(r, h) ==
    IF h.kind # "Ok" THEN [r EXCEPT !.pc = "idle", !.result = h]
    ELSE IF Len(r.got) + 1 = Len(proof_idxs(r))
         THEN [r EXCEPT !.pc = "idle", !.got = Append(@, h.val),
                        !.result = Ok(Append(r.got, h.val))]
    ELSE [r EXCEPT !.got = Append(@, h.val),
                   !.pc = IF r.name = "prove_inclusion_at_size"
                          THEN "vnode" ELSE "node"]

\* get_node_hash_at_version resumes with the versioned entry, if there is one
VersionedReadDone ==
    /\ rd.pc = "vnode"
    /\ LET x == proof_idxs(rd)[Len(rd.got) + 1]
           v == versioned_entry(db, x, rd.tree_size)
           r == [rd EXCEPT !.reads = @ \cup {versioned_node_key(x, rd.tree_size)}]
       IN rd' = IF Len(v) > 0 THEN ProofGot(r, v[1]) ELSE [r EXCEPT !.pc = "node"]
    /\ UNCHANGED <<db, pc, op, result, appended, handle, w2>>

\* get_node_hash resumes with the current-node entry
NodeReadDone ==
    /\ rd.pc = "node"
    /\ LET x == proof_idxs(rd)[Len(rd.got) + 1]
           r == [rd EXCEPT !.reads = @ \cup {node_key(x)}]
       IN rd' = ProofGot(r, get_node_hash(db, x))
    /\ UNCHANGED <<db, pc, op, result, appended, handle, w2>>

NextProofs ==
    \/ ProofPush \/ ProofBatchPush
    \/ CallProveInclusionAtSize \/ CallProveConsistencyBetween
    \/ ProofLenDone \/ VersionedReadDone \/ NodeReadDone

SpecProofs == InitProofs /\ [][NextProofs]_vars

(***************************************************************************)
(* SpecHistory: the reader of SpecProofs calls prove_inclusion_at_size for *)
(* a leaf of an earlier size while a caller appends equal items up to      *)
(* MaxHistoryLeaves leaves, enough for an interior node (node 11, written  *)
(* at size 7 and rewritten at size 8) to change under a proof of an        *)
(* earlier size.                                                           *)
(***************************************************************************)
MaxHistoryLeaves == 8

HistoryPush ==
    \E new_val \in FullItems :
        /\ num_leaves < MaxHistoryLeaves
        /\ LET o == push(db, new_val)
           IN /\ db' = o.db
              /\ result' = o.result
              /\ appended' = IF o.result.kind = "Ok"
                             THEN Append(appended, new_val) ELSE appended
        /\ UNCHANGED <<pc, op, env>>

HistoryBatchPush ==
    \E items \in FullBatches :
        /\ num_leaves + Len(items) <= MaxHistoryLeaves
        /\ LET o == batch_push(db, items)
           IN /\ db' = o.db
              /\ result' = o.result
              /\ appended' = IF o.result.kind = "Ok"
                             THEN appended \o items ELSE appended
        /\ UNCHANGED <<pc, op, env>>

CallHistoryProof ==
    \E tree_size \in 1..MaxHistoryLeaves : \E idx \in 0..(tree_size - 1) :
        /\ rd.pc = "idle"
        /\ rd' = [NoProof EXCEPT !.pc = "len", !.name = "prove_inclusion_at_size",
                                 !.idx = idx, !.tree_size = tree_size]
        /\ UNCHANGED <<db, pc, op, result, appended, handle, w2>>

NextHistory ==
    \/ HistoryPush \/ HistoryBatchPush
    \/ CallHistoryProof
    \/ ProofLenDone \/ VersionedReadDone \/ NodeReadDone

SpecHistory == InitProofs /\ [][NextHistory]_vars

(***************************************************************************)
(* SpecOpen: a task opens a read-write handle with new() while the handle  *)
(* of SpecHandles is opened, closed and appended to on the same store.     *)
(* The opening task is followed from await to await; w2.pc is the await it *)
(* is suspended at:                                                        *)
(*   "get"  tree.get_num_leaves().await                                    *)
(*   "put"  tree.set_num_leaves(0).await                                   *)
(***************************************************************************)
CallNew ==
    /\ w2.pc = "idle"
    /\ w2' = [NoAppend EXCEPT !.pc = "get"]
    /\ UNCHANGED <<db, pc, op, result, appended, handle, rd>>

\* new resumes with the stored leaf count, if there is one
NewGetDone ==
    /\ w2.pc = "get"
    /\ LET existing_leaves == get_num_leaves(db)
       IN w2' = IF existing_leaves.kind # "Ok"
                THEN [w2 EXCEPT !.pc = "idle", !.result = existing_leaves]
                ELSE IF existing_leaves.val = <<>>
                     THEN [w2 EXCEPT !.pc = "put"]
                     ELSE [w2 EXCEPT !.pc = "idle", !.result = Ok(<<>>)]
    /\ UNCHANGED <<db, pc, op, result, appended, handle, rd>>

\* the put of META = 0 is applied and new returns the handle
NewPutDone ==
    /\ w2.pc = "put"
    /\ LET o == set_num_leaves(ReadWrite, db, 0)
       IN /\ db' = o.db
          /\ w2' = [w2 EXCEPT !.pc = "idle", !.result = o.result]
    /\ UNCHANGED <<pc, op, result, appended, handle, rd>>

NextOpen ==
    \/ Open \/ Close \/ HandlePush
    \/ CallNew \/ NewGetDone \/ NewPutDone

SpecOpen == InitHandles /\ [][NextOpen]_vars

(***************************************************************************)
(* SpecWalks: an append followed through its leaf-to-root walks, one loop  *)
(* iteration per step.  batch_push walks every new leaf once to discover   *)
(* the nodes to prefetch and once more to recompute its path; push walks   *)
(* its leaf once in recalculate_path_batch.  rd is the walk in progress:   *)
(* its phase, the item it is for, cur_idx and the tree size it walks in.   *)
(* The backend is responsive and the task is scheduled: every enabled step *)
(* of the append is eventually taken.                                      *)
(***************************************************************************)
MaxWalkLeaves == 8

\* variant: the walk does not move
walk_step_stays(cur_idx, tree_size) == cur_idx

\* cur_idx = cur_idx.parent(tree_size), the last statement of each loop
walk_step(cur_idx, tree_size) == parent(cur_idx, tree_size)

\* the walk of the item-th new leaf of the append that started at S
walk_of(phase, item, S) ==
    [phase |-> phase, item |-> item, cur_idx |-> LeafToInternal(S + item),
     tree_size |-> S + item + 1]

InitWalk ==
    /\ db = new(<<>>).db
    /\ pc = "idle"
    /\ op = NoOp
    /\ result = Ok(<<>>)
    /\ appended = <<>>
    /\ handle = [mode |-> ReadWrite, opens |-> 1, view |-> View(<<>>)]
    /\ rd = walk_of("none", 0, 0)
    /\ w2 = NoAppend

CallWalkPush ==
    \E new_val \in FullItems :
        /\ pc = "idle"
        /\ num_leaves < MaxWalkLeaves
        /\ pc' = "walk"
        /\ op' = [NoOp EXCEPT !.name = "push", !.items = <<new_val>>,
                              !.starting_index = num_leaves]
        /\ rd' = walk_of("recompute", 0, num_leaves)
        /\ UNCHANGED <<db, result, appended, handle, w2>>

CallWalkBatchPush ==
    \E items \in FullBatches :
        /\ pc = "idle"
        /\ num_leaves + Len(items) <= MaxWalkLeaves
        /\ op' = [NoOp EXCEPT !.name = "batch_push", !.items = items,
                              !.starting_index = num_leaves]
        /\ IF nothing_to_commit(items, <<>>)
           THEN /\ result' = Ok(<<num_leaves>>)
                /\ UNCHANGED <<pc, rd>>
           ELSE /\ pc' = "walk"
                /\ rd' = walk_of("discovery", 0, num_leaves)
                /\ UNCHANGED result
        /\ UNCHANGED <<db, appended, handle, w2>>

\* one iteration of the while loop: cur_idx is not the root yet
WalkStep ==
    /\ pc = "walk"
    /\ rd.cur_idx # root_idx(rd.tree_size)
    /\ rd' = [rd EXCEPT !.cur_idx = walk_step(@, rd.tree_size)]
    /\ UNCHANGED <<db, pc, op, result, appended, handle, w2>>

\* the walk has reached the root and the next walk of the append begins
WalkNext ==
    /\ pc = "walk"
    /\ rd.cur_idx = root_idx(rd.tree_size)
    /\ \/ /\ rd.item + 1 < Len(op.items)
          /\ rd' = walk_of(rd.phase, rd.item + 1, op.starting_index)
       \/ /\ rd.item + 1 = Len(op.items)
          /\ rd.phase = "discovery"
          /\ rd' = walk_of("recompute", 0, op.starting_index)
    /\ UNCHANGED <<db, pc, op, result, appended, handle, w2>>

\* the last walk of the append has reached the root
last_walk_done ==
    /\ pc = "walk"
    /\ rd.cur_idx = root_idx(rd.tree_size)
    /\ rd.item + 1 = Len(op.items)
    /\ rd.phase = "recompute"

\* the walk of push has reached the root: the batch commits and push returns
WalkCommitPush ==
    /\ last_walk_done
    /\ op.name = "push"
    /\ LET o == push(db, op.items[1])
       IN /\ db' = o.db
          /\ result' = o.result
          /\ appended' = IF o.result.kind = "Ok"
                         THEN appended \o op.items ELSE appended
    /\ pc' = "idle"
    /\ UNCHANGED <<op, handle, rd, w2>>

\* the last walk of batch_push has reached the root: the batch commits and
\* batch_push returns
WalkCommitBatchPush ==
    /\ last_walk_done
    /\ op.name = "batch_push"
    /\ LET o == batch_push(db, op.items)
       IN /\ db' = o.db
          /\ result' = o.result
          /\ appended' = IF o.result.kind = "Ok"
                         THEN appended \o op.items ELSE appended
    /\ pc' = "idle"
    /\ UNCHANGED <<op, handle, rd, w2>>

NextWalks ==
    \/ CallWalkPush \/ CallWalkBatchPush
    \/ WalkStep \/ WalkNext
    \/ WalkCommitPush \/ WalkCommitBatchPush

\* The commit steps are the only ones that take pc from "walk" to "idle", and
\* one of them is enabled exactly when last_walk_done holds: the last conjunct
\* is weak fairness of the commit
SpecWalks ==
    /\ InitWalk /\ [][NextWalks]_vars
    /\ WF_vars(WalkStep) /\ WF_vars(WalkNext)
    /\ WF_pc(last_walk_done /\ pc' = "idle")

(***************************************************************************)
(* SpecNodes: the appends of a single caller, each run to completion, on   *)
(* trees large enough for an interior node to be rewritten after the size  *)
(* at which it first appeared (node 11 at sizes 7 and 8).                  *)
(***************************************************************************)
MaxNodeLeaves == 8

NodePush ==
    \E new_val \in Items :
        /\ num_leaves < MaxNodeLeaves
        /\ LET o == push(db, new_val)
           IN /\ db' = o.db
              /\ result' = o.result
              /\ appended' = IF o.result.kind = "Ok"
                             THEN Append(appended, new_val) ELSE appended
        /\ UNCHANGED <<pc, op, env>>

NodeBatchPush ==
    \E items \in Batches :
        /\ num_leaves + Len(items) <= MaxNodeLeaves
        /\ LET o == batch_push(db, items)
           IN /\ db' = o.db
              /\ result' = o.result
              /\ appended' = IF o.result.kind = "Ok"
                             THEN appended \o items ELSE appended
        /\ UNCHANGED <<pc, op, env>>

NextNodes == NodePush \/ NodeBatchPush

SpecNodes == Init /\ [][NextNodes]_vars

(***************************************************************************)
(* SpecFaults: appends on stores in which a node entry is missing or holds *)
(* a value that is not of the digest's length.  Such stores are reached    *)
(* through batch_push_with_data itself: the additional pairs are put into  *)
(* the batch after the META put and under any key the caller names, so a   *)
(* pair under META_KEY moves num_leaves past the nodes that exist and a    *)
(* pair under a node key replaces the stored hash.  Each call runs to      *)
(* completion; op keeps the arguments of the last call and the size of the *)
(* tree it was made on.                                                    *)
(***************************************************************************)
MaxFaultLeaves == 3

\* pairs under keys of the tree: short values under node keys, a leaf count
FaultPairs ==
    {<<node_key(x), Bytes(<<9>>)>> : x \in {0, 1}}
    \cup {<<versioned_node_key(4, 3), Bytes(<<9>>)>>}
    \cup {<<META_KEY, Bytes(to_be_bytes(2))>>}

FaultExtras == {<<>>} \cup {<<p>> : p \in FaultPairs}

FaultPush ==
    \E new_val \in Items :
        /\ num_leaves < MaxFaultLeaves
        /\ Len(appended) < MaxFaultLeaves
        /\ LET o == push(db, new_val)
           IN /\ db' = o.db
              /\ result' = o.result
              /\ appended' = IF o.result.kind = "Ok"
                             THEN Append(appended, new_val) ELSE appended
        /\ op' = [NoOp EXCEPT !.name = "push", !.items = <<new_val>>,
                              !.starting_index = num_leaves]
        /\ UNCHANGED <<pc, env>>

FaultBatchPushWithData ==
    \E items \in Batches, additional_data \in FaultExtras :
        /\ num_leaves + Len(items) <= MaxFaultLeaves
        /\ Len(appended) + Len(items) <= MaxFaultLeaves
        /\ LET o == batch_push_with_data(db, items, additional_data)
           IN /\ db' = o.db
              /\ result' = o.result
              /\ appended' = IF o.result.kind = "Ok"
                             THEN appended \o items ELSE appended
        /\ op' = [NoOp EXCEPT !.name = "batch_push_with_data", !.items = items,
                              !.extras = additional_data,
                              !.starting_index = num_leaves]
        /\ UNCHANGED <<pc, env>>

NextFaults == FaultPush \/ FaultBatchPushWithData

SpecFaults == Init /\ [][NextFaults]_vars

(***************************************************************************)
(* SpecCache: the appends of a single caller on a read-write handle, each  *)
(* run to completion, with the handle's node cache: handle.node_cache maps *)
(* an internal index to the bytes cached for it.  batch_push fills the     *)
(* cache at its prefetch; entries leave it by expiry or eviction.          *)
(***************************************************************************)
MaxCacheLeaves == 6

\* Cache::insert of every prefetched entry
cache_insert(node_cache, found) ==
    [x \in DOMAIN node_cache \cup DOMAIN found |->
        IF x \in DOMAIN found THEN found[x] ELSE node_cache[x]]

\* variant: a cached entry is taken instead of the stored one
prefetch_cache_first(node_cache, d, starting_index, num_items) ==
    LET found == prefetched_nodes(d, starting_index, num_items)
        hits == nodes_to_prefetch(starting_index, num_items) \cap DOMAIN node_cache
    IN [prefetched_nodes |-> [x \in DOMAIN found \cup hits |->
                                 IF x \in hits THEN node_cache[x] ELSE found[x]],
        node_cache |-> cache_insert(node_cache, found)]

\* the prefetch of batch_push_with_data on a handle with a cache: the map of
\* prefetched nodes, and the cache with every one of them inserted
prefetch(node_cache, d, starting_index, num_items) ==
    LET found == prefetched_nodes(d, starting_index, num_items)
    IN [prefetched_nodes |-> found, node_cache |-> cache_insert(node_cache, found)]

\* batch_push_with_data on the handle of new() with the map of prefetched
\* nodes given: [result, db]
batch_push_with_prefetched(d, items, additional_data, prefetched) ==
    LET n == len(d)
        b == batch_of_batch_push(d, n.val, items, additional_data, prefetched)
        w == DbHandle_write(ReadWrite, staged(d, b.batch), b.batch)
    IN IF n.kind # "Ok" THEN [result |-> n, db |-> d]
       ELSE IF nothing_to_commit(items, additional_data)
            THEN [result |-> Ok(<<n.val>>), db |-> d]
       ELSE IF b.kind # "Ok" THEN [result |-> Err(b.kind), db |-> staged(d, b.batch)]
       ELSE IF w.result.kind # "Ok" THEN w
       ELSE [result |-> batch_push_result(n.val, n.val + Len(items)), db |-> w.db]

\* batch_push_with_data on the handle of new(), with its cache:
\* [out, node_cache], out being [result, db]; the cache is filled once the
\* call is past its early return, whatever becomes of the append
batch_push_with_data_cached(node_cache, d, items, additional_data) ==
    [out |-> batch_push_with_prefetched(d, items, additional_data,
                 prefetch(node_cache, d, len(d).val, Len(items)).prefetched_nodes),
     node_cache |-> IF len(d).kind # "Ok" \/ nothing_to_commit(items, additional_data)
                    THEN node_cache
                    ELSE prefetch(node_cache, d, len(d).val, Len(items)).node_cache]

\* SlateDbBackedTree::new on an empty backend, with its empty cache
InitCache ==
    /\ db = new(<<>>).db
    /\ pc = "idle"
    /\ op = NoOp
    /\ result = Ok(<<>>)
    /\ appended = <<>>
    /\ handle = [mode |-> ReadWrite, opens |-> 1, view |-> View(<<>>),
                 node_cache |-> <<>>]
    /\ rd = NoRead
    /\ w2 = NoAppend

CachePush ==
    \E new_val \in Items :
        /\ num_leaves < MaxCacheLeaves
        /\ LET o == push(db, new_val)
           IN /\ db' = o.db
              /\ result' = o.result
              /\ appended' = IF o.result.kind = "Ok"
                             THEN Append(appended, new_val) ELSE appended
        /\ op' = [NoOp EXCEPT !.name = "push", !.items = <<new_val>>]
        /\ UNCHANGED <<pc, env>>

CacheBatchPush ==
    \E items \in Batches :
        /\ num_leaves + Len(items) <= MaxCacheLeaves
        /\ LET o == batch_push_with_data_cached(handle.node_cache, db, items, <<>>)
           IN /\ db' = o.out.db
              /\ result' = o.out.result
              /\ handle' = [handle EXCEPT !.node_cache = o.node_cache]
        /\ appended' = IF result'.kind = "Ok" THEN appended \o items ELSE appended
        /\ op' = [NoOp EXCEPT !.name = "batch_push", !.items = items,
                              !.pre = handle.node_cache]
        /\ UNCHANGED <<pc, rd, w2>>

\* an entry expires (time_to_live) or is evicted (max_capacity)
CacheExpire ==
    \E x \in DOMAIN handle.node_cache :
        /\ handle' = [handle EXCEPT !.node_cache =
                         [y \in DOMAIN handle.node_cache \ {x} |-> handle.node_cache[y]]]
        /\ op' = [NoOp EXCEPT !.name = "expire"]
        /\ UNCHANGED <<db, pc, result, appended, rd, w2>>

NextCache == CachePush \/ CacheBatchPush \/ CacheExpire

SpecCache == InitCache /\ [][NextCache]_vars

(***************************************************************************)
(* Properties.                                                             *)
(***************************************************************************)
Prefix(D, n) == SubSeq(D, 1, n)

\* the store after one push per item of L
RECURSIVE push_each(_, _)
push_each(d, L) ==
    IF L = <<>> THEN d ELSE push_each(push(d, L[1]).db, Tail(L))

\* C1: after any sequence of appends root() returns the RFC 6962 tree hash of
\* the appended leaves in append order, with their number; the hash of the
\* empty string for the empty tree.
C1_RootMatchesReference ==
    /\ root(db) = Ok(<<RFC_MTH(appended), Len(appended)>>)
    /\ appended = <<>> => root(db) = Ok(<<EmptyHash, 0>>)

C1_Witness ==
    /\ Len(appended) = 7
    /\ result = Ok(<<5>>)
    /\ root(db).val = <<RFC_MTH(appended), 7>>

\* C2: for every size N up to the current one and every leaf i < N, the proof
\* of prove_inclusion_at_size(i, N) verifies leaf i against the root of the
\* first N leaves.
C2_HistoricalInclusionVerifies ==
    \A N \in 1..num_leaves : \A i \in 0..(N - 1) :
        LET proof == prove_inclusion_at_size(db, i, N)
        IN /\ proof.kind = "Ok"
           /\ VerifyInclusion(appended[i + 1], i, N, proof.val,
                              RFC_MTH(Prefix(appended, N)))

\* a node of the historical tree has since been recomputed: node 11 covered
\* leaves 4..6 at size 7 and covers leaves 4..7 at size 8
C2_Witness ==
    /\ num_leaves = 8
    /\ get_node_hash_at_version(db, 11, 7) # get_node_hash(db, 11)
    /\ prove_inclusion_at_size(db, 0, 7).val[3] = get_node_hash_at_version(db, 11, 7).val

\* C3: for all 0 < m < n <= num_leaves the proof of
\* prove_consistency_between(m, n) verifies the root of the first m leaves
\* against the root of the first n leaves.
C3_ConsistencyBetweenVerifies ==
    \A n \in 2..num_leaves : \A m \in 1..(n - 1) :
        LET proof == prove_consistency_between(db, m, n)
        IN /\ proof.kind = "Ok"
           /\ VerifyConsistency(m, n, proof.val, RFC_MTH(Prefix(appended, m)),
                                RFC_MTH(Prefix(appended, n)))

\* C4: for every i < num_leaves, prove_inclusion(i) is the RFC 6962 audit path
\* of leaf i in the tree of all appended leaves and verifies leaf i against
\* the hash root() returns.
C4_InclusionMatchesReference ==
    \A i \in 0..(num_leaves - 1) :
        LET proof == prove_inclusion(db, i)
        IN /\ proof.kind = "Ok"
           /\ proof.val = RFC_PATH(i, appended)
           /\ VerifyInclusion(appended[i + 1], i, num_leaves, proof.val,
                              root(db).val[1])

C4_Witness ==
    /\ num_leaves = 7
    /\ Len(prove_inclusion(db, 6).val) = 2
    /\ Len(prove_inclusion(db, 0).val) = 3

\* the leaf sequences appended in one, in two, and in single-leaf calls, and
\* the largest tree they are appended to
MaxSplitLen == 3
MaxSplitStart == 5
SplitLists == UNION {[1..k -> Items] : k \in 0..MaxSplitLen}

\* C5: from any store, batch_push(L), batch_push(L[..s]) followed by
\* batch_push(L[s..]), and one push per item of L, end with equal root().
C5_BatchSplitIndividualRootsEqual ==
    num_leaves <= MaxSplitStart =>
    \A L \in SplitLists : \A s \in 0..Len(L) :
        LET whole == batch_push(db, L).db
            split == batch_push(batch_push(db, SubSeq(L, 1, s)).db,
                                SubSeq(L, s + 1, Len(L))).db
            single == push_each(db, L)
        IN /\ root(whole).kind = "Ok"
           /\ root(whole) = root(split)
           /\ root(split) = root(single)

C5_Witness ==
    /\ num_leaves = 3
    /\ \E L \in SplitLists :
          /\ Len(L) = 3
          /\ root(batch_push(db, L).db).val[2] = 6
          /\ root(batch_push(db, L).db) # root(db)

\* the nodes from cur up to the root of the tree of n leaves
RECURSIVE path_to_root(_, _)
path_to_root(cur, n) ==
    IF cur = root_idx(n) THEN {cur} ELSE {cur} \cup path_to_root(parent(cur, n), n)

\* the store holds the leaf, current-node and versioned-node entries of the
\* append of items at positions S, S+1, ...
NewEntriesPresent(d, S, items) ==
    \A j \in 0..(Len(items) - 1) :
        /\ get(d, S + j) = Ok(<<items[j + 1]>>)
        /\ \A x \in path_to_root(LeafToInternal(S + j), S + j + 1) :
              /\ DbHas(d, versioned_node_key(x, S + j + 1))
              /\ DbHas(d, node_key(x))

\* C6: an append of k items to a tree of S leaves changes the store in one
\* step: until then the store is the pre-call store with num_leaves = S, and
\* the one step that changes it leaves num_leaves = S + k with every new
\* entry present.
C6_AppendIsOneAtomicStep ==
    /\ [](pc # "idle" => db = op.pre)
    /\ [][db' # db =>
            /\ pc = "write"
            /\ len(db) = Ok(op.starting_index)
            /\ len(db') = Ok(op.starting_index + Len(op.items))
            /\ NewEntriesPresent(db', op.starting_index, op.items)
            /\ \A key \in DOMAIN db \ {META_KEY} :
                  key[1] \in {"leaf:", "vnode:"} => DbHas(db', key) /\ db'[key] = db[key]]_vars

C6_Witness ==
    /\ pc = "idle"
    /\ result = Ok(<<2>>)
    /\ num_leaves = 4
    /\ NewEntriesPresent(db, 2, SubSeq(appended, 3, 4))

\* C7: a call that returns an error or is cancelled before the commit leaves
\* the store exactly as it was when the call was made.
C7_FailedAppendChangesNothing ==
    [][(pc # "idle" /\ pc' = "idle" /\ result'.kind # "Ok") => db' = op.pre]_vars

C7_Witness ==
    /\ pc = "idle"
    /\ result.kind \in {"DbError", "Cancelled"}
    /\ num_leaves = 3

\* C8: num_leaves, the count under META that len returns, is the number of
\* items appended by the successful calls, and no step decreases it.
C8_LeafCountIsAppendedCount ==
    /\ [](len(db) = Ok(Len(appended)))
    /\ [][num_leaves' >= num_leaves]_vars

C8_Witness ==
    /\ Len(appended) = 4
    /\ len(db) = Ok(4)
    /\ result.kind = "DbError"

\* C9: for every i < num_leaves, get(i) returns the item appended at position
\* i, and no step changes what get(i) returns for a stored leaf.
C9_LeavesPersist ==
    /\ [](\A i \in 0..(num_leaves - 1) : get(db, i) = Ok(<<appended[i + 1]>>))
    /\ [][\A i \in 0..(num_leaves - 1) : get(db', i) = get(db, i)]_vars

C9_Witness ==
    /\ num_leaves = 6
    /\ get(db, 0) = Ok(<<appended[1]>>)
    /\ get(db, 5) = Ok(<<appended[6]>>)
    /\ appended[1] # appended[6]

\* C10: get(i) returns None for every i >= num_leaves: the store holds a leaf
\* entry only at positions below the stored leaf count.
C10_NoLeafBeyondCount ==
    /\ \A i \in num_leaves..(MaxLeaves + MaxBatch) : get(db, i) = Ok(<<>>)
    /\ \A key \in DOMAIN db : key[1] = "leaf:" => key[2] < num_leaves

C10_Witness ==
    /\ num_leaves = 5
    /\ get(db, 4).val # <<>>
    /\ get(db, 5) = Ok(<<>>)

\* C11: a successful batch_push of k items on a tree of S leaves returns S,
\* leaves len() = S + k, and has stored the j-th item at leaf position S + j.
C11_BatchPushReturnsStartingIndex ==
    [][(op.name = "batch_push" /\ pc # "idle" /\ pc' = "idle" /\ result'.kind = "Ok") =>
          LET S == len(op.pre).val
              k == Len(op.items)
          IN /\ result' = Ok(<<S>>)
             /\ len(db') = Ok(S + k)
             /\ \A j \in 0..(k - 1) : get(db', S + j) = Ok(<<op.items[j + 1]>>)]_vars

C11_Witness ==
    /\ pc = "idle"
    /\ result = Ok(<<1>>)
    /\ len(db) = Ok(3)
    /\ get(db, 1) = Ok(<<appended[2]>>)
    /\ get(db, 2) = Ok(<<appended[3]>>)
    /\ appended[2] # appended[3]

\* C12: opening a read-write handle on a store that has META changes nothing
\* in the store, and after a close and a reopen len(), root() and every
\* get(i) return what they returned before the close; on a store without
\* META the open writes META = 0 and nothing else.
C12_ReopenChangesNothing ==
    /\ [][(handle.mode = Closed /\ handle'.mode = ReadWrite) =>
             IF DbHas(db, META_KEY)
             THEN db' = db /\ View(db') = handle.view
             ELSE db' = Put(db, META_KEY, Bytes(to_be_bytes(0)))]_vars
    /\ [][handle'.mode = Closed => db' = db]_vars

C12_Witness ==
    /\ handle.mode = ReadWrite
    /\ handle.opens = 2
    /\ op.name = "new"
    /\ num_leaves = 2
    /\ View(db) = handle.view
    /\ handle.view.root.val[2] = 2

C14_RootPairIsConsistent ==
    (rd.pc = "idle" /\ rd.name = "root" /\ rd.result.kind = "Ok") =>
        rd.result.val[1] = RFC_MTH(Prefix(appended, rd.result.val[2]))

\* C19: prove_inclusion(i) returns an error for every i >= num_leaves, on the
\* empty tree for every i, and a proof, one hash per copath node, for every
\* i < num_leaves; no step of the call changes the store.
C19_InclusionBounds ==
    /\ [](\A i \in 0..(MaxStepLeaves + 1) :
             IF i >= num_leaves
             THEN prove_inclusion(db, i).kind = "InconsistentState"
             ELSE /\ prove_inclusion(db, i).kind = "Ok"
                  /\ Len(prove_inclusion(db, i).val)
                        = Len(indices_for_inclusion_proof(num_leaves, i)))
    /\ [][(rd.name = "prove_inclusion" /\ rd.pc # "idle" /\ rd' # rd) =>
             /\ db' = db
             /\ rd.pc = "len" =>
                   IF rd.arg >= num_leaves
                   THEN rd'.pc = "idle" /\ rd'.result.kind = "InconsistentState"
                   ELSE rd'.pc = "fetch" /\ rd'.n = num_leaves
             /\ rd.pc = "fetch" => rd'.pc = "idle" /\ rd'.result.kind = "Ok"]_vars

C19_Witness ==
    /\ rd.name = "prove_inclusion"
    /\ rd.pc = "idle"
    /\ rd.arg = 0
    /\ rd.result.kind = "Ok"
    /\ Len(rd.result.val) = 2
    /\ num_leaves = 3

\* C15: appends are not serialized.  A batch_push that reaches its write
\* commits whatever the other task has committed since it read S: it returns
\* S, leaves num_leaves = S + k and its own leaf and node entries at the
\* positions from S on, replacing what the other task wrote there.  (The
\* witness is the state the claim says is reachable: both tasks read S = 0,
\* both returned 0, num_leaves is below the number of items reported
\* appended, and the leaf the first commit wrote at position 0 is gone.)
C15_AppendsAreNotSerialized ==
    [][/\ (pc = "write" /\ pc' = "idle") =>
             /\ result' = Ok(<<op.starting_index>>)
             /\ len(db') = Ok(op.starting_index + Len(op.items))
             /\ NewEntriesPresent(db', op.starting_index, op.items)
       /\ (w2.pc = "write" /\ w2'.pc = "idle") =>
             /\ w2'.result = Ok(<<w2.starting_index>>)
             /\ len(db') = Ok(w2.starting_index + Len(w2.items))
             /\ NewEntriesPresent(db', w2.starting_index, w2.items)]_vars

C15_Witness ==
    /\ pc = "idle" /\ w2.pc = "idle"
    /\ result = Ok(<<0>>) /\ w2.result = Ok(<<0>>)
    /\ Len(appended) = 3
    /\ num_leaves = 1
    /\ get(db, 0) # Ok(<<appended[1]>>)
    /\ get_node_hash_at_version(db, 0, 1) # Ok(leaf_hash(appended[1]))

\* the keys of the additional pairs are the caller's own, outside the leaf:,
\* node:, vnode: and meta namespaces
OwnKeys(extras) == \A i \in 1..Len(extras) : extras[i][1][1] = "extra:"

\* the entries of the store under the keys of the tree
TreeState(d) ==
    LET keys == {key \in DOMAIN d : key[1] \in {"leaf:", "node:", "vnode:", "meta"}}
    IN [key \in keys |-> d[key]]

\* every key of extras holds the value supplied for it (the last one, when
\* the key is supplied more than once)
ExtrasHeld(d, extras) ==
    \A key \in DOMAIN ApplyBatch(<<>>, extras) :
        DbHas(d, key) /\ d[key] = ApplyBatch(<<>>, extras)[key]

C18_PushFullFromHalfRange ==
    [][op'.name = "push" =>
          /\ result'.kind = "InconsistentState" <=> num_leaves >= Pow2(U64_BITS - 1)
          /\ result'.kind # "Ok" => db' = db]_vars

\* C20: prove_consistency(old_size) returns an error whenever old_size = 0
\* or old_size >= num_leaves, and for every 0 < old_size < num_leaves it
\* returns the proof that prove_consistency_between(old_size, num_leaves)
\* returns.
C20_ConsistencyBounds ==
    \A old_size \in 0..(num_leaves + 2) :
        IF old_size = 0 \/ old_size >= num_leaves
        THEN prove_consistency(db, old_size).kind = "InconsistentState"
        ELSE /\ prove_consistency(db, old_size).kind = "Ok"
             /\ prove_consistency(db, old_size)
                   = prove_consistency_between(db, old_size, num_leaves)

C20_Witness ==
    /\ num_leaves = 7
    /\ prove_consistency(db, 7).kind = "InconsistentState"
    /\ prove_consistency(db, 4).kind = "Ok"
    /\ Len(prove_consistency(db, 3).val) = 4
    /\ prove_consistency(db, 3) = prove_consistency_between(db, 3, 7)

\* C21: prove_consistency_between(old_size, new_size) fails with
\* InconsistentState whenever a size precondition is violated (old_size = 0,
\* old_size > new_size, or new_size > num_leaves), for every combination of
\* the arguments, equal sizes included.
C21_SizePreconditionsRejected ==
    \A old_size, new_size \in 0..(num_leaves + 2) :
        (old_size = 0 \/ old_size > new_size \/ new_size > num_leaves)
            => prove_consistency_between(db, old_size, new_size).kind
                   = "InconsistentState"

\* C22: for every m with 0 < m <= num_leaves, prove_consistency_between(m, m)
\* succeeds with an empty proof and reads nothing from the store: the call
\* returns before its first await.
C22_EqualSizesEmptyProofNoReads ==
    [][(/\ rd.pc = "idle"
        /\ rd' # rd
        /\ rd'.name = "prove_consistency_between"
        /\ rd'.old_size = rd'.new_size
        /\ 0 < rd'.old_size
        /\ rd'.old_size <= num_leaves)
          => /\ rd'.pc = "idle"
             /\ rd'.result = Ok(<<>>)
             /\ rd'.reads = {}]_vars

C22_Witness ==
    /\ num_leaves = 3
    /\ Len(appended) = 3
    /\ rd.name = "prove_consistency_between"
    /\ rd.old_size = 3
    /\ rd.new_size = 3
    /\ rd.pc = "idle"
    /\ rd.result = Ok(<<>>)
    /\ rd.reads = {}

\* the nodes of the RFC 6962 tree over the leaves D placed at positions lo,
\* lo + 1, ...: the pairs <<internal index, hash>>; the node over a range
\* that splits after k leaves sits between the two halves, at 2 * (lo + k) - 1
RECURSIVE RFC_NODES(_, _)
RFC_NODES(lo, D) ==
    LET n == Len(D)
        k == SplitPoint(n)
    IN IF n = 0 THEN {}
       ELSE IF n = 1 THEN {<<2 * lo, leaf_hash(D[1])>>}
       ELSE {<<2 * (lo + k) - 1, RFC_MTH(D)>>}
            \cup RFC_NODES(lo, SubSeq(D, 1, k))
            \cup RFC_NODES(lo + k, SubSeq(D, k + 1, n))

\* C24: after any sequence of non-overlapping appends, every node x of the
\* Merkle tree over the current leaves (every leaf index and every ancestor
\* of a leaf) has a current-node entry, and the entry holds the RFC 6962 hash
\* of the leaves x covers at the current size.
C24_CurrentNodesHoldTreeHashes ==
    \A p \in RFC_NODES(0, appended) : get_node_hash(db, p[1]) = Ok(p[2])

C24_Witness ==
    /\ Len(appended) = 7
    /\ <<11, RFC_MTH(SubSeq(appended, 5, 7))>> \in RFC_NODES(0, appended)
    /\ get_node_hash(db, 11) = Ok(RFC_MTH(SubSeq(appended, 5, 7)))
    /\ appended[5] # appended[6]

\* C25: in every reachable state, for every size N <= num_leaves and every
\* node x of the tree of size N: either the versioned-node entry (x, N)
\* exists and holds the hash x had at size N, or there is no such entry and
\* the current-node entry of x holds the hash x had at size N.
C25_VersionedOrCurrentIsHistorical ==
    \A N \in 1..num_leaves :
        \A p \in RFC_NODES(0, Prefix(appended, N)) :
            IF DbHas(db, versioned_node_key(p[1], N))
            THEN versioned_entry(db, p[1], N) = <<Ok(p[2])>>
            ELSE get_node_hash(db, p[1]) = Ok(p[2])

C25_Witness ==
    /\ Len(appended) = 8
    /\ appended[8] # appended[7]
    /\ DbHas(db, versioned_node_key(11, 7))
    /\ versioned_entry(db, 11, 7) = <<Ok(RFC_MTH(SubSeq(appended, 5, 7)))>>
    /\ get_node_hash(db, 11) # Ok(RFC_MTH(SubSeq(appended, 5, 7)))
    /\ ~DbHas(db, versioned_node_key(9, 7))
    /\ get_node_hash(db, 9) = Ok(RFC_MTH(SubSeq(appended, 5, 6)))

\* the keys of the versioned-node entries of the store d
versioned_keys(d) == {k \in DOMAIN d : k[1] = "vnode:"}

\* C26: under the appends of a single caller, a versioned-node entry (x, N)
\* is written only by the append that grows the tree to size N, and only for
\* a node x on the path from leaf N - 1 to root_idx(N); once written, its
\* value never changes.
C26_VersionedEntriesWrittenOnce ==
    [][/\ \A k \in versioned_keys(db') \ versioned_keys(db) :
             /\ num_leaves < k[4]
             /\ k[4] <= len(db').val
             /\ k[2] \in path_to_root(LeafToInternal(k[4] - 1), k[4])
       /\ \A k \in versioned_keys(db) : DbHas(db', k) /\ db'[k] = db[k]]_vars

C26_Witness ==
    /\ Len(appended) = 5
    /\ result = Ok(<<3>>)
    /\ DbHas(db, versioned_node_key(3, 3))
    /\ DbHas(db, versioned_node_key(3, 4))
    /\ versioned_entry(db, 3, 3) # versioned_entry(db, 3, 4)
    /\ ~DbHas(db, versioned_node_key(3, 5))
    /\ DbHas(db, versioned_node_key(7, 5))
    /\ ~DbHas(db, versioned_node_key(7, 4))

\* C27: when a reader observes num_leaves = N, every node entry needed by a
\* proof about sizes <= N is present: for all i < n <= N
\* prove_inclusion_at_size(i, n), and for all 0 < m < n <= N
\* prove_consistency_between(m, n), never fail with the missing-node
\* InconsistentState error, neither on the store as it stands nor in a call
\* whose fetches are overtaken by appends.
C27_ProofNodesPresent ==
    /\ [](\A n \in 1..num_leaves :
            /\ \A i \in 0..(n - 1) :
                  prove_inclusion_at_size(db, i, n).kind # "InconsistentState"
            /\ \A m \in 1..(n - 1) :
                  prove_consistency_between(db, m, n).kind # "InconsistentState")
    /\ [][rd.pc \in {"vnode", "node"}
            => rd'.result.kind # "InconsistentState"]_vars

C27_Witness ==
    /\ rd.name = "prove_inclusion_at_size"
    /\ rd.pc = "idle"
    /\ rd.tree_size = 3
    /\ rd.n = 3
    /\ num_leaves = 4
    /\ rd.result.kind = "Ok"
    /\ Len(rd.result.val) = 2
    /\ node_key(2) \in rd.reads
    /\ versioned_node_key(4, 3) \in rd.reads
    /\ prove_consistency_between(db, 1, 3).kind = "Ok"

\* C28: for 0 < m < N <= num_leaves, each hash of the proof returned by
\* prove_consistency_between(m, N) is the one read from the versioned-node
\* entry keyed (x, N) when that entry exists and from the current-node entry
\* only when it does not: the hash node x had at size N.
C28_ConsistencyHashesAreVersioned ==
    \A N \in 1..num_leaves :
        \A m \in 1..(N - 1) :
            prove_consistency_between(db, m, N)
                = fetch_at_version(db, indices_for_consistency_proof(m, N - m), N)

\* the siblings an append of k items to a tree of S leaves takes from the
\* store: those below 2 * S on the paths of the new leaves that the append
\* has not computed itself
required_siblings(S, k) ==
    nodes_to_prefetch(S, k)
    \ UNION {path_to_root(LeafToInternal(p), p + 1) : p \in S..(S + k - 1)}

\* C29: when push or batch_push on a tree of size S needs a preexisting
\* sibling (index below 2 * S, not recomputed in this batch) whose
\* current-node entry is missing from the store, the append fails with
\* InconsistentState and writes nothing; the all-zero hash is not substituted.
C29_MissingSiblingFailsAppend ==
    [][(/\ op'.name \in {"push", "batch_push_with_data"}
        /\ op'.starting_index = num_leaves
        /\ op'.extras = <<>>
        /\ \E s \in required_siblings(num_leaves, Len(op'.items)) :
               ~DbHas(db, node_key(s)))
          => /\ result'.kind = "InconsistentState"
             /\ db' = db]_vars

\* the store d holds, under key, a value that is not of the digest's length
wrong_length(d, key) == DbHas(d, key) /\ d[key].len # HASH_SIZE

\* the elements of the sequence idxs
Range(idxs) == {idxs[i] : i \in 1..Len(idxs)}

\* the key get_node_hash_at_version takes the hash of idx from
version_key(d, idx, version) ==
    IF DbHas(d, versioned_node_key(idx, version))
    THEN versioned_node_key(idx, version) ELSE node_key(idx)

\* an append that needs a wrong-length node value as a sibling returns the
\* Encoding error and commits nothing
AppendRefusesWrongLength ==
    (/\ op'.name \in {"push", "batch_push_with_data"}
     /\ op'.starting_index = num_leaves
     /\ \E s \in required_siblings(num_leaves, Len(op'.items)) :
            wrong_length(db, node_key(s)))
       => /\ result'.kind = "EncodingError"
          /\ db' = db

\* what a read r of the node entries under keys, one of them of the wrong
\* length, returns: the Encoding error; when not strict, the error of a
\* missing entry is accepted where one of the keys is absent
refused(d, r, keys, strict) ==
    IF strict \/ \A k \in keys : DbHas(d, k)
    THEN r.kind = "EncodingError"
    ELSE r.kind \in {"EncodingError", "InconsistentState"}

\* root, get_node_hash and the proof operations refuse a node value of the
\* wrong length among the entries they read
ReadsRefuseWrongLength(strict) ==
    /\ \A x \in 0..(2 * MaxFaultLeaves) :
          wrong_length(db, node_key(x)) => get_node_hash(db, x).kind = "EncodingError"
    /\ (num_leaves > 0 /\ wrong_length(db, node_key(root_idx(num_leaves))))
          => root(db).kind = "EncodingError"
    /\ \A i \in 0..(num_leaves - 1) :
          LET keys == {node_key(x) : x \in Range(indices_for_inclusion_proof(num_leaves, i))}
          IN (\E k \in keys : wrong_length(db, k))
                => refused(db, prove_inclusion(db, i), keys, strict)
    /\ \A n \in 1..num_leaves :
          /\ \A i \in 0..(n - 1) :
                LET keys == {version_key(db, x, n) :
                                x \in Range(indices_for_inclusion_proof(n, i))}
                IN (\E k \in keys : wrong_length(db, k))
                      => refused(db, prove_inclusion_at_size(db, i, n), keys, strict)
          /\ \A m \in 1..(n - 1) :
                LET keys == {node_key(x) :
                                x \in Range(indices_for_consistency_proof(m, n - m))}
                IN (\E k \in keys : wrong_length(db, k))
                      => /\ refused(db, prove_consistency_between(db, m, n), keys, strict)
                         /\ n = num_leaves
                               => refused(db, prove_consistency(db, m), keys, strict)

\* C30: whenever a stored node value whose length is not the hash output
\* width is needed as a sibling by an append or is read by root,
\* get_node_hash or a proof operation, the operation returns the Encoding
\* error and an append commits nothing: the value is never used as a hash
\* and never replaced by another value.
C30_WrongLengthIsEncodingError ==
    []ReadsRefuseWrongLength(TRUE) /\ [][AppendRefusesWrongLength]_vars

\* C30, amended: as above, except that a proof operation which also needs an
\* entry that is missing may return the InconsistentState error of the
\* missing entry instead; it never returns a proof.
C30_WrongLengthIsRefused ==
    []ReadsRefuseWrongLength(FALSE) /\ [][AppendRefusesWrongLength]_vars

C30_Witness ==
    /\ op.name = "batch_push_with_data"
    /\ Len(op.items) = 2
    /\ op.starting_index = 1
    /\ result.kind = "EncodingError"
    /\ num_leaves = 1
    /\ wrong_length(db, node_key(0))
    /\ 0 \in required_siblings(1, 2)
    /\ root(db).kind = "EncodingError"
    /\ get(db, 0).kind = "Ok"
    /\ ~DbHas(db, leaf_key(1))

\* C31: the node cache is never authoritative: an append on a handle whose
\* cache holds anything the earlier appends and expiries have left in it
\* (op.pre, stale entries included) returns the same result and leaves the
\* same store as the same append made without a cache; the read operations
\* take no cache at all.
C31_CacheIsNeverAuthoritative ==
    [][/\ op'.name = "batch_push"
          => /\ db' = batch_push_with_data(db, op'.items, <<>>).db
             /\ result' = batch_push_with_data(db, op'.items, <<>>).result
       /\ op'.name = "push"
          => /\ db' = push(db, op'.items[1]).db
             /\ result' = push(db, op'.items[1]).result]_vars

C31_Witness ==
    /\ op.name = "batch_push"
    /\ num_leaves = 6
    /\ result = Ok(<<5>>)
    /\ 3 \in DOMAIN op.pre
    /\ get_node_hash(db, 3) # Ok(op.pre[3])
    /\ get_node_hash(db, 7) = Ok(RFC_MTH(appended))

\* C38: in every reachable state (expiry and eviction only remove entries),
\* every entry (x, v) of the handle's node cache holds the value of the
\* current-node entry of x in the store.
C38_CacheHoldsCurrentNodes ==
    \A x \in DOMAIN handle.node_cache :
        get_node_hash(db, x) = Ok(handle.node_cache[x])

\* the keys an append of k items at size S with no extras may write
append_keys(S, k) ==
    {META_KEY}
    \cup {leaf_key(i) : i \in S..(S + k - 1)}
    \cup UNION {{node_key(x), versioned_node_key(x, N)} :
                   <<x, N>> \in UNION {path_to_root(LeafToInternal(N1 - 1), N1) \X {N1} :
                                          N1 \in (S + 1)..(S + k)}}

\* the keys whose entry differs between the stores d and e
changed_keys(d, e) ==
    {key \in DOMAIN d \cup DOMAIN e :
        ~ (key \in DOMAIN d /\ key \in DOMAIN e /\ d[key] = e[key])}

\* C32: an append of k items at size S with no extras puts only the leaf keys
\* S..S+k-1, the current-node and versioned-node keys (x, N') of the nodes x
\* on the path of each new leaf at its size N' in S+1..S+k, and META; every
\* other entry of the store is as it was.  The steps of a read operation
\* leave the store as it was.
C32_AppendWritesOnlyItsKeys ==
    [][/\ db' # db
          => /\ pc = "write"
             /\ {op.batch[j][1] : j \in 1..Len(op.batch)}
                    \subseteq append_keys(op.starting_index, Len(op.items))
             /\ changed_keys(db, db') \subseteq append_keys(op.starting_index, Len(op.items))
       /\ rd' # rd => db' = db]_vars

C32_Witness ==
    /\ pc = "idle"
    /\ result = Ok(<<2>>)
    /\ num_leaves = 4
    /\ DbHas(db, versioned_node_key(3, 3))
    /\ DbHas(db, versioned_node_key(5, 4))
    /\ ~ DbHas(db, versioned_node_key(5, 3))
    /\ get(db, 0) = Ok(<<appended[1]>>)
    /\ rd.name = "root" /\ rd.pc = "idle"
    /\ rd.result = Ok(<<RFC_MTH(appended), 4>>)

\* the node entries of d, current or versioned, whose value is parent_hash
\* with the all-zero hash as its left operand
zero_on_the_left(d) ==
    {key \in DOMAIN d :
        /\ key[1] \in {"node:", "vnode:"}
        /\ d[key].len = HASH_SIZE
        /\ Len(d[key].v) = 3
        /\ d[key].v[1] = 1
        /\ d[key].v[2] = ZeroHash}

\* C33: in any push or batch_push the all-zero hash is substituted for a
\* sibling only while the walked node is the left child, so no node the
\* appends write is parent_hash with the zero hash as its left operand.
C33_ZeroOnlyOnTheRight == zero_on_the_left(db) = {}

\* C34: from any store, batch_push(L) and one push per item of L leave the
\* same store: the same META, and the same leaf, current-node and
\* versioned-node keys with the same values.
C34_BatchAndPushesLeaveEqualStores ==
    num_leaves <= MaxSplitStart =>
    \A L \in SplitLists : batch_push(db, L).db = push_each(db, L)

C34_Witness ==
    /\ num_leaves = 3
    /\ \E L \in SplitLists :
          /\ Len(L) = 3
          /\ batch_push(db, L).result = Ok(<<3>>)
          /\ len(push_each(db, L)) = Ok(6)
          /\ get_node_hash(push_each(db, L), 3) # get_node_hash(db, 3)
          /\ DbHas(push_each(db, L), versioned_node_key(7, 5))
          /\ DbHas(push_each(db, L), versioned_node_key(7, 6))

(***************************************************************************)
(* StorageBackedMerkleTree, the wrapper of merkle_storage.rs: its errors   *)
(* are BadRequest for a refused argument and Storage for an error of the   *)
(* tree underneath.                                                        *)
(***************************************************************************)
\* StorageBackedMerkleTree::size
size(d) == IF len(d).kind # "Ok" THEN Err("Storage") ELSE len(d)

\* StorageBackedMerkleTree::consistency_proof_between_sizes
consistency_proof_between_sizes(d, old_tree_size, new_tree_size) ==
    IF old_tree_size > new_tree_size THEN Err("BadRequest")
    ELSE IF old_tree_size = new_tree_size THEN Ok(<<>>)
    ELSE IF old_tree_size = 0 THEN Err("BadRequest")
    ELSE IF size(d).kind # "Ok" THEN size(d)
    ELSE IF old_tree_size > size(d).val THEN Err("BadRequest")
    ELSE IF new_tree_size > size(d).val THEN Err("BadRequest")
    ELSE IF prove_consistency_between(d, old_tree_size, new_tree_size).kind # "Ok"
         THEN Err("Storage")
    ELSE prove_consistency_between(d, old_tree_size, new_tree_size)

\* C39: for every pair of sizes the wrapper's consistency_proof_between_sizes
\* fails exactly when prove_consistency_between fails, old = 0 and
\* old = new = 0 included, and otherwise returns the same proof.
C39_WrapperAgreesWithTree ==
    \A old_size, new_size \in 0..(MaxNodeLeaves + 1) :
        LET w == consistency_proof_between_sizes(db, old_size, new_size)
            t == prove_consistency_between(db, old_size, new_size)
        IN /\ (w.kind = "Ok") <=> (t.kind = "Ok")
           /\ w.kind = "Ok" => w = t

\* StorageBackedMerkleTree::prove_inclusion_efficient
prove_inclusion_efficient(d, tree_size, leaf_index) ==
    IF leaf_index >= tree_size THEN Err("BadRequest")
    ELSE IF size(d).kind # "Ok" THEN size(d)
    ELSE IF tree_size > size(d).val THEN Err("BadRequest")
    ELSE IF prove_inclusion_at_size(d, leaf_index, tree_size).kind # "Ok"
         THEN Err("Storage")
    ELSE prove_inclusion_at_size(d, leaf_index, tree_size)

\* C35: for i < N <= num_leaves the proof of prove_inclusion_at_size(i, N),
\* also when asked through prove_inclusion_efficient, is the RFC 6962 audit
\* path of leaf i among the first N leaves and no later append changes it;
\* a call that has read a leaf count >= N returns that same proof whatever
\* appends commit between its reads.
C35_HistoricalProofIsStable ==
    [][/\ db' # db =>
             \A N \in 1..num_leaves : \A i \in 0..(N - 1) :
                 LET audit_path == prove_inclusion_at_size(db, i, N)
                 IN /\ audit_path.kind = "Ok"
                    /\ prove_inclusion_at_size(db', i, N) = audit_path
                    /\ prove_inclusion_efficient(db', N, i) = audit_path
       /\ (rd.pc \in {"vnode", "node"} /\ rd'.pc = "idle")
             => rd'.result = prove_inclusion_at_size(db', rd.idx, rd.tree_size)]_vars

C35_Witness ==
    /\ rd.pc = "vnode"
    /\ rd.idx = 0 /\ rd.tree_size = 7
    /\ rd.n = 7
    /\ num_leaves = 8
    /\ Len(rd.got) = 2
    /\ proof_idxs(rd)[3] = 11
    /\ get_node_hash(db, 11) # get_node_hash_at_version(db, 11, 7)

\* C37: opening a read-write handle never lowers an existing leaf count: in
\* every interleaving of new() with another handle's new() and appends, no
\* step of new() leaves a stored num_leaves below the one it found, so the
\* count after new() completes is not below the leaves already committed.
C37_OpenNeverLowersLeafCount ==
    [][w2' # w2 => len(db').val >= len(db).val]_vars

\* C36: no successful append makes num_leaves exceed the capacity bound that
\* push enforces (it refuses at num_leaves >= u64::MAX / 2), and the leaf
\* positions, tree sizes and doubled indices of an append (starting_index * 2,
\* leaf_position + 1, 2 * leaf_position) stay within the u64 range.
C36_AppendsStayWithinCapacity ==
    /\ num_leaves <= U64_MAX \div 2
    /\ (op.name \in {"push", "batch_push"} /\ result.kind = "Ok") =>
          LET S == len(op.pre).val
              k == Len(op.items)
          IN /\ S * 2 <= U64_MAX
             /\ \A i \in 0..(k - 1) :
                   /\ S + i + 1 <= U64_MAX
                   /\ 2 * (S + i) <= U64_MAX

\* C40: for every tree size S within bounds and every new leaf position
\* p >= S the leaf-to-root walks of an append (cur = parent(cur, p + 1) from
\* the leaf's index until root_idx(p + 1)) reach the root, so an append that
\* has started its walks eventually commits or returns an error.
C40_WalksTerminate == (pc = "walk") ~> (pc = "idle")

C40_Witness ==
    /\ pc = "idle"
    /\ op.name = "batch_push" /\ Len(op.items) = 2
    /\ result = Ok(<<4>>)
    /\ num_leaves = 6
    /\ rd.phase = "recompute" /\ rd.item = 1
    /\ rd.tree_size = 6 /\ rd.cur_idx = 7

====
